---- MODULE Spec2Model ----
(***************************************************************************)
(* MedIntel backend: the conversation turn pipeline (app/routes/chat.py,   *)
(* app/websocket.py, app/routes/whatsapp.py), the generation orchestrator  *)
(* (app/services/ai_service.py) and the observer registry                  *)
(* (ConnectionManager in app/websocket.py).                                *)
(*                                                                         *)
(* Every coroutine is a task whose pc names the await it is suspended at.  *)
(* One action is the completion of that await together with the            *)
(* synchronous code that follows it, up to the next await: asyncio runs    *)
(* that stretch without interleaving.                                      *)
(***************************************************************************)
EXTENDS Integers, Sequences, FiniteSets, TLC

VARIABLES
    ai,                  \* the frame of one AIService.generate_response call
    sessions,            \* db.chat_sessions: id -> document, or NoDoc
    messages,            \* db.chat_messages, in insertion (timestamp) order
    active_connections,  \* ConnectionManager.active_connections
    task,                \* one record per coroutine (request or socket handler)
    sent,                \* per observer handle: the send_text calls made on it
    turns,               \* number of requests and socket messages accepted so far
    created,             \* number of uuids handed out by create_chat_session
    sched                \* "any": handlers interleave at their awaits; "one": one at a time;
                         \* "bridge": one at a time, up to MaxBridgeTurns requests

vars == <<ai, sessions, messages, active_connections, task, sent, turns, created, sched>>

(***************************************************************************)
(* Program constants                                                       *)
(***************************************************************************)
\* config.py: AI_MODEL_NAMES = ["gemini-2.0-flash", "gemini-1.5-flash"]
AI_MODEL_NAMES == <<"gemini-2.0-flash", "gemini-1.5-flash">>

\* config.py: AI_MAX_RETRIES = 3
AI_MAX_RETRIES == 3

\* Python's None.
None == "<None>"

\* `.to_list(1000)` of get_chat_messages.
LIST_LIMIT == 1000

\* config.py: MAX_FILE_SIZE = 10 * 1024 * 1024
MAX_FILE_SIZE == 10 * 1024 * 1024

\* `.to_list(100)` of AIService._load_chat_history.
HISTORY_LIMIT == 100

(***************************************************************************)
(* Bounds of the model                                                     *)
(***************************************************************************)
\* Requests and socket messages accepted in one behaviour.
MaxTurns == 2

\* Messages a conversation may accumulate when the history loader is exercised.
MaxStored == 102

\* Words in a text handed to the language detector.
MaxWords == 3

\* The longest conversation whose role mapping is enumerated.
MaxRoleMessages == 3

\* Requests accepted in one behaviour of the bridge webhook with change_language
\* (first contact, a language change, a later bridge message).
MaxBridgeTurns == 3

(***************************************************************************)
(* Languages (app.constants) and the detector (app/utils/helpers.py)       *)
(***************************************************************************)
\* SUPPORTED_LANGUAGES, in the order of the list.
SUPPORTED_LANGUAGES ==
    <<"english", "hindi", "spanish", "tamil", "telugu", "kannada", "malayalam",
      "punjabi", "gujarati", "marathi", "bengali", "odia", "assamese", "urdu",
      "chinese", "arabic", "japanese">>

Supported == {SUPPORTED_LANGUAGES[i] : i \in DOMAIN SUPPORTED_LANGUAGES}

\* Contents are sequences of words; a fixed text is a one-word or two-word sequence.
\* CONFIRMATION_MESSAGES: one canonical phrase per supported language.
CONFIRMATION_MESSAGES == [l \in Supported |-> <<"CONFIRMATION", l>>]

\* LANGUAGE_PROMPT: the fixed language-selection prompt.
LANGUAGE_PROMPT == <<"LANGUAGE_PROMPT">>

\* `CONFIRMATION_MESSAGES.get(detected, f"Language changed to {detected.capitalize()}.")`
ConfirmationFor(l) ==
    IF l \in DOMAIN CONFIRMATION_MESSAGES
    THEN CONFIRMATION_MESSAGES[l]
    ELSE <<"Language changed to", l>>

\* str.lower() on the words the model feeds in.
Lower(w) ==
    CASE w = "Hindi" -> "hindi"
      [] w = "Spanish" -> "spanish"
      [] w = "ENGLISH" -> "english"
      [] OTHER -> w

\* language_patterns of detect_language_preference, in dict order. `words` are the
\* alternatives of the \b(...)\b pattern that are a whole word of [a-z] letters (the
\* longer alternatives, "speak hindi", contain the name and add no match); `phrases`
\* are the alternatives of the unanchored second pattern, each taken as one word.
language_patterns ==
    << [language |-> "english",   words |-> {"english"},   phrases |-> {}],
       [language |-> "hindi",     words |-> {"hindi"},     phrases |-> {"hindi-phrase"}],
       [language |-> "spanish",   words |-> {"spanish", "espanol"},
                                  phrases |-> {"habla-espanol"}],
       [language |-> "tamil",     words |-> {"tamil"},     phrases |-> {"tamil-phrase"}],
       [language |-> "telugu",    words |-> {"telugu"},    phrases |-> {"telugu-phrase"}],
       [language |-> "kannada",   words |-> {"kannada"},   phrases |-> {"kannada-phrase"}],
       [language |-> "malayalam", words |-> {"malayalam"}, phrases |-> {"malayalam-phrase"}],
       [language |-> "punjabi",   words |-> {"punjabi"},   phrases |-> {"punjabi-phrase"}],
       [language |-> "gujarati",  words |-> {"gujarati"},  phrases |-> {"gujarati-phrase"}],
       [language |-> "marathi",   words |-> {"marathi"},   phrases |-> {"marathi-phrase"}],
       [language |-> "bengali",   words |-> {"bengali"},   phrases |-> {"bengali-phrase"}],
       [language |-> "odia",      words |-> {"odia"},      phrases |-> {"odia-phrase"}],
       [language |-> "assamese",  words |-> {"assamese"},  phrases |-> {"assamese-phrase"}],
       [language |-> "urdu",      words |-> {"urdu"},      phrases |-> {}],
       [language |-> "chinese",   words |-> {"chinese"},   phrases |-> {}],
       [language |-> "arabic",    words |-> {"arabic"},    phrases |-> {}],
       [language |-> "japanese",  words |-> {"japanese"},  phrases |-> {}] >>

\* Mutant of PatternMatches: only the unanchored phrase patterns are searched.
PatternMatchesPhrasesOnly(entry, msg) ==
    \E i \in DOMAIN msg : Lower(msg[i]) \in entry.phrases

\* re.search of one table entry's patterns in message_lower.
PatternMatches(entry, msg) ==
    \E i \in DOMAIN msg :
        Lower(msg[i]) \in entry.words \cup entry.phrases

\* Mutant of DetectFrom: the language of the leftmost matching word of the text.
DetectLeftmost(k, msg) ==
    LET hits == {i \in DOMAIN msg :
                   \E j \in k..Len(language_patterns) :
                       PatternMatches(language_patterns[j], <<msg[i]>>)}
    IN  IF hits = {} THEN None
        ELSE LET i == CHOOSE x \in hits : \A y \in hits : x <= y
                 j == CHOOSE x \in k..Len(language_patterns) :
                        PatternMatches(language_patterns[x], <<msg[i]>>)
             IN  language_patterns[j].language

\* The loop of lines 113-122 from table position k on: the first entry that matches.
RECURSIVE DetectFrom(_, _)
DetectFrom(k, msg) ==
    IF k > Len(language_patterns) THEN None
    ELSE IF PatternMatches(language_patterns[k], msg)
         THEN language_patterns[k].language
         ELSE DetectFrom(k + 1, msg)

\* detect_language_preference(msg)
detect_language_preference(msg) ==
    IF msg = <<>> THEN None ELSE DetectFrom(1, msg)

(***************************************************************************)
(* The store: db.chat_sessions and db.chat_messages                        *)
(***************************************************************************)
\* Conversation ids: uuids of create_chat_session, and bridge sender addresses.
SessionIds == <<"s1">>
BridgeIds == {"w1"}
AllIds == {SessionIds[i] : i \in DOMAIN SessionIds} \cup BridgeIds

InSeq(x, seq) == \E i \in DOMAIN seq : seq[i] = x

\* list.remove(x): drops the first occurrence.
RemoveFirst(seq, x) ==
    LET k == CHOOSE i \in DOMAIN seq : seq[i] = x /\ \A j \in 1..(i - 1) : seq[j] # x
    IN  [i \in 1..(Len(seq) - 1) |-> IF i < k THEN seq[i] ELSE seq[i + 1]]

\* The session documents with this id, by position in the collection.
DocsOf(id) == {i \in DOMAIN sessions : sessions[i].id = id}

\* db.chat_sessions.find_one({"id": id}): the first match, or NoDoc for None.
NoDoc == [id |-> None, language |-> None, updated_at |-> 0]

\* Mutant of FindOne: a lookup that misses answers a fresh english conversation.
FindOneDefault(id) ==
    IF DocsOf(id) = {} THEN [id |-> id, language |-> "english", updated_at |-> 0]
    ELSE sessions[CHOOSE i \in DocsOf(id) : \A j \in DocsOf(id) : i <= j]

FindOne(id) ==
    IF DocsOf(id) = {} THEN NoDoc
    ELSE sessions[CHOOSE i \in DocsOf(id) : \A j \in DocsOf(id) : i <= j]

\* db.chat_sessions.update_one({"id": id}, {"$set": {"language": l, "updated_at": now}}):
\* the first match is updated; updated_at is modelled by the number of writes.
UpdateLanguage(id, l) ==
    IF DocsOf(id) = {} THEN sessions
    ELSE LET k == CHOOSE i \in DocsOf(id) : \A j \in DocsOf(id) : i <= j
         IN  [sessions EXCEPT ![k].language = l, ![k].updated_at = @ + 1]

\* db.chat_sessions.insert_one(ChatSession(id=..., language=...))
InsertSession(id, l) ==
    Append(sessions, [id |-> id, language |-> l, updated_at |-> 0])

\* ChatMessage(session_id, role, content); `turn` stands for what ties the two
\* messages of one turn together (the request that built them).
ChatMessage(sid, role, content, turn) ==
    [session_id |-> sid, role |-> role, content |-> content, turn |-> turn]

\* db.chat_messages.insert_one(...)
InsertMessage(msgs, m) == Append(msgs, m)

\* cursor.to_list(n): at most the first n documents of the cursor.
ToList(seq, n) == SubSeq(seq, 1, IF Len(seq) < n THEN Len(seq) ELSE n)

\* db.chat_messages.delete_many({"session_id": sid})
DeleteMany(msgs, sid) == SelectSeq(msgs, LAMBDA m : m.session_id # sid)

\* db.chat_sessions.delete_one({"id": id}): the first match goes; deleted_count.
DeletedCount(id) == IF DocsOf(id) = {} THEN 0 ELSE 1

DeleteOne(id) ==
    IF DocsOf(id) = {} THEN sessions
    ELSE LET k == CHOOSE i \in DocsOf(id) : \A j \in DocsOf(id) : i <= j
         IN  [i \in 1..(Len(sessions) - 1) |->
                 IF i < k THEN sessions[i] ELSE sessions[i + 1]]

\* db.chat_messages.find({"session_id": sid}).sort("timestamp", 1)
MessagesOf(sid) == SelectSeq(messages, LAMBDA m : m.session_id = sid)

\* One entry of the history handed to the backend (line 72-73): the role is
\* "user" or "model", the content is the single part.
HistoryEntry(m) ==
    [role |-> IF m.role = "user" THEN "user" ELSE "model", parts |-> <<m.content>>]

\* AIService._load_chat_history: find, sort by timestamp ascending, to_list(100),
\* then the role mapping.
load_chat_history(session_id) ==
    LET history_docs == ToList(MessagesOf(session_id), HISTORY_LIMIT)
    IN  [i \in DOMAIN history_docs |-> HistoryEntry(history_docs[i])]

(***************************************************************************)
(* AIService.generate_response                                             *)
(***************************************************************************)
\* What one chat.send_message call to the backend can do.
SendOutcomes == {"ok", "rate_limit", "blocked", "error"}

\* What constructing the model and its chat session can do.
ConstructOutcomes == {"ok", "error"}

\* The replies the backend may give (response.text.strip()).
Replies == {"reply-a", "reply-b"}

AiIdle ==
    [pc |-> "idle", model |-> 0, attempt |-> 0, last_error |-> None,
     log |-> <<>>, status |-> 0, detail |-> None, reply |-> None,
     session_id |-> None, history |-> <<>>]

\* Mutant of IsRateLimit: every failure is taken for a rate-limit signal.
IsRateLimitAny(outcome) == TRUE

\* `if "429" in str(e) or "quota" in str(e).lower()`
IsRateLimit(outcome) == outcome = "rate_limit"

\* Mutant of MayRetry: the retry guard off by one.
MayRetryOffByOne(attempt) == attempt < AI_MAX_RETRIES - 2

\* Mutant of MayRetry: one retry more than the ceiling.
MayRetryOneMore(attempt) == attempt < AI_MAX_RETRIES

\* `if attempt < config.AI_MAX_RETRIES - 1`
MayRetry(attempt) == attempt < AI_MAX_RETRIES - 1

\* Mutant of WaitTime: the delay does not grow.
WaitTimeFixed(attempt) == 1

\* `wait_time = 2 ** attempt`
WaitTime(attempt) == 2 ^ attempt

\* `raise HTTPException(status_code=..., detail=...)` leaving generate_response
\* through `except HTTPException: raise`.
AiRaise(frame, status, detail) ==
    [frame EXCEPT !.pc = "done", !.status = status, !.detail = detail]

\* Mutant of AiNextModel: the 503 carries the error recorded before this failure.
AiNextModelStale(frame, err) ==
    IF frame.model < Len(AI_MODEL_NAMES)
    THEN [frame EXCEPT !.pc = "construct", !.model = frame.model + 1,
                       !.attempt = 0, !.last_error = err]
    ELSE AiRaise(frame, 503, frame.last_error)

\* Mutant of AiNextModel: after the last candidate the loop starts over at the
\* first.
AiNextModelWrapsAround(frame, err) ==
    [frame EXCEPT !.pc = "construct",
                  !.model = IF frame.model < Len(AI_MODEL_NAMES) THEN frame.model + 1 ELSE 1,
                  !.attempt = 0, !.last_error = err]

\* The outer `for model_name in config.AI_MODEL_NAMES` moves on with last_error
\* set: the next candidate, or after the last one the 503 of lines 164-169.
AiNextModel(frame, err) ==
    IF frame.model < Len(AI_MODEL_NAMES)
    THEN [frame EXCEPT !.pc = "construct", !.model = frame.model + 1,
                       !.attempt = 0, !.last_error = err]
    ELSE AiRaise([frame EXCEPT !.last_error = err], 503, err)

\* Mutant of AiReturn: the reply is kept and the loop goes on to the next
\* candidate.
AiReturnFallsThrough(frame, reply) ==
    AiNextModel([frame EXCEPT !.reply = reply], frame.last_error)

\* `return response.text.strip()` (line 139): the call ends with the reply.
AiReturn(frame, reply) ==
    [frame EXCEPT !.pc = "done", !.status = 200, !.reply = reply]

\* A content-safety block: lines 141-146 raise HTTPException(400) inside the
\* `try` of line 109, whose `except Exception` (line 159) takes it, because
\* HTTPException is an Exception: last_error = e; continue.
AiBlocked(frame) == AiNextModel(frame, "HTTPException(400)")

\* Any other exception of chat.send_message (lines 148-157).
AiSendFailed(frame, outcome) ==
    IF IsRateLimit(outcome) /\ MayRetry(frame.attempt)
    THEN [frame EXCEPT !.pc = "sleep"]
    ELSE AiNextModel(frame, outcome)

\* The frame of generate_response once `await self._load_chat_history(...)` of
\* line 101 has returned the history, or raised.
AiEntered(session_id, loaded) ==
    IF loaded
    THEN [AiIdle EXCEPT !.pc = "construct", !.model = 1,
                        !.session_id = session_id,
                        !.history = load_chat_history(session_id)]
    ELSE [AiIdle EXCEPT !.pc = "done", !.status = 500,
                        !.detail = "history", !.session_id = session_id]

\* generate_response is entered: _load_chat_history reads the store.
AiCall ==
    /\ ai.pc = "idle"
    /\ \E session_id \in AllIds, loaded \in BOOLEAN :
         ai' = AiEntered(session_id, loaded)
    /\ UNCHANGED <<sessions, messages, active_connections, task, sent, turns, created, sched>>

\* One entry of the call's event log.
AiEvent(ev, model, outcome, wait) ==
    [ev |-> ev, model |-> model, outcome |-> outcome, wait |-> wait]

\* genai.GenerativeModel(...) and model.start_chat(history) for the candidate.
AiConstruct ==
    /\ ai.pc = "construct"
    /\ \E o \in ConstructOutcomes :
         LET f == [ai EXCEPT !.log = Append(@, AiEvent("construct", ai.model, o, 0))] IN
         ai' = IF o = "ok"
               THEN [f EXCEPT !.pc = "send", !.attempt = 0]
               ELSE AiNextModel(f, "construct")
    /\ UNCHANGED <<sessions, messages, active_connections, task, sent, turns, created, sched>>

\* `response = await asyncio.to_thread(chat.send_message, content)`, one
\* delivery attempt, and what lines 139-157 do with its outcome.
AiSend ==
    /\ ai.pc = "send"
    /\ \E o \in SendOutcomes, r \in Replies :
         LET f == [ai EXCEPT !.log = Append(@, AiEvent("send", ai.model, o, 0))] IN
         ai' = CASE o = "ok" -> AiReturn(f, r)
                 [] o = "blocked" -> AiBlocked(f)
                 [] OTHER -> AiSendFailed(f, o)
    /\ UNCHANGED <<sessions, messages, active_connections, task, sent, turns, created, sched>>

\* `await asyncio.sleep(wait_time); continue`
AiSleep ==
    /\ ai.pc = "sleep"
    /\ ai' = [ai EXCEPT !.pc = "send", !.attempt = ai.attempt + 1,
                        !.log = Append(@, AiEvent("sleep", ai.model, "slept",
                                                  WaitTime(ai.attempt)))]
    /\ UNCHANGED <<sessions, messages, active_connections, task, sent, turns, created, sched>>

NextAI == AiCall \/ AiConstruct \/ AiSend \/ AiSleep

(***************************************************************************)
(* ConnectionManager (app/websocket.py)                                    *)
(***************************************************************************)
WsHandles == {"h1", "h2"}
EmptyRegistry == [k \in {} |-> <<>>]

\* Mutant of RegistryAppend: the registry is replaced by one fresh list holding
\* the handle.
RegistryAppendFresh(ac, sid, h) == [k \in {sid} |-> <<h>>]

\* connect, after `await websocket.accept()` has returned (lines 27-29).
RegistryAppend(ac, sid, h) ==
    [k \in DOMAIN ac \cup {sid} |->
        IF k = sid
        THEN (IF sid \in DOMAIN ac THEN Append(ac[sid], h) ELSE <<h>>)
        ELSE ac[k]]

\* `del self.active_connections[session_id]`
RegistryDelete(ac, sid) == [k \in DOMAIN ac \ {sid} |-> ac[k]]

\* Mutant of DeleteIfEmpty: an emptied entry is kept.
DeleteIfEmptyNever(ac, sid) == ac

\* `if not self.active_connections[session_id]: del ...` on an entry that exists.
DeleteIfEmpty(ac, sid) ==
    IF ac[sid] = <<>> THEN RegistryDelete(ac, sid) ELSE ac

\* Mutant of disconnect: the registry is left as it was.
disconnectNothing(ac, sid, h) == ac

\* ConnectionManager.disconnect(session_id, websocket), lines 32-39.
disconnect(ac, sid, h) ==
    IF sid \notin DOMAIN ac THEN ac
    ELSE LET l == IF InSeq(h, ac[sid]) THEN RemoveFirst(ac[sid], h) ELSE ac[sid]
         IN  DeleteIfEmpty([ac EXCEPT ![sid] = l], sid)

(***************************************************************************)
(* Tasks: socket handlers (one per observer handle) and request handlers   *)
(***************************************************************************)
RestTasks == {"r1", "r2"}
\* A caller that only reads (get_chat_messages).
Readers == {"g1"}
Tasks == WsHandles \cup RestTasks \cup Readers

\* The texts a caller may submit, as word sequences.
Texts == { <<"what", "is", "bp">>, <<"speak", "Hindi">> }

\* SendMessageRequest.language / the upload form's language.
ExplicitLanguages == {None, "english"}

\* ChatSessionCreate.language: an Optional[str] with no validator.
CreateLanguages == {None, "english", "klingon"}

\* The `language` query parameter of change_language.
ChangeLanguages == {"Hindi", "klingon"}

\* The uploaded file: len(file_bytes) at and just above the ceiling, and the media
\* type with whether its content can be read.
FileSizes == {MAX_FILE_SIZE, MAX_FILE_SIZE + 1}
FileKinds == {"image", "pdf_ok", "pdf_empty", "text_ok", "text_bad", "other"}
Files == [size : FileSizes, kind : FileKinds]

\* What a call of generate_response gives its caller: the reply, or the
\* HTTPException that leaves it (503 of line 166, 500 of line 175; the 400 of
\* line 143 is taken by line 159 and never leaves).
GenerateOutcomes ==
    {[status |-> 200, reply |-> <<r>>] : r \in Replies}
        \cup {[status |-> c, reply |-> <<>>] : c \in {503, 500}}

\* generate_response(session_id, text, file_content, language): with language
\* None, _get_system_instruction evaluates `language.upper()` (line 47), the
\* AttributeError is taken by `except Exception` of line 173 and leaves as the
\* HTTPException 500 of line 175.
GenerateOutcomesFor(language) ==
    IF language = None THEN {[status |-> 500, reply |-> <<>>]} ELSE GenerateOutcomes

TaskIdle ==
    [kind |-> "none", pc |-> "idle", path |-> "none", sid |-> None, msg |-> <<>>,
     explicit |-> None, stored |-> None, lang |-> None, detected |-> None,
     reply |-> <<>>, file |-> None, turn |-> 0, events |-> <<>>, status |-> 0,
     snap |-> <<>>, idx |-> 0, body |-> <<>>]

Log(rec, e) == [rec EXCEPT !.events = Append(@, e)]

\* The decision order shared by send_message (chat.py 85-138) and
\* handle_websocket (websocket.py 76-130), run once `lang` is resolved:
\* language switch, else language prompt, else normal AI turn.
IsSwitch(detected) == detected # None /\ InSeq(detected, SUPPORTED_LANGUAGES)

\* Mutant of NeedsPrompt: a conversation without a language is never prompted.
NeedsPromptNever(lang) == FALSE

\* `if lang is None`
NeedsPrompt(lang) == lang = None

\* Mutant of DecideTurn: the prompt for a missing language is tested before the
\* detected switch.
DecideTurnPromptFirst(rec, doc, lang) ==
    LET detected == detect_language_preference(rec.msg)
        r == [rec EXCEPT !.stored = doc.language, !.lang = lang,
                         !.detected = detected]
    IN  IF NeedsPrompt(lang)
        THEN [r EXCEPT !.path = "prompt", !.pc = "user", !.reply = LANGUAGE_PROMPT]
        ELSE IF IsSwitch(detected)
        THEN [r EXCEPT !.path = "switch", !.pc = "update"]
        ELSE [r EXCEPT !.path = "normal", !.pc = "user"]

\* Mutant of DecideTurn: a normal AI turn first writes the language it generates
\* in to the conversation record.
DecideTurnPersistsLanguage(rec, doc, lang) ==
    LET detected == detect_language_preference(rec.msg)
        r == [rec EXCEPT !.stored = doc.language, !.lang = lang,
                         !.detected = detected]
    IN  IF IsSwitch(detected)
        THEN [r EXCEPT !.path = "switch", !.pc = "update"]
        ELSE IF NeedsPrompt(lang)
        THEN [r EXCEPT !.path = "prompt", !.pc = "user", !.reply = LANGUAGE_PROMPT]
        ELSE [r EXCEPT !.path = "normal", !.pc = "update", !.detected = lang]

DecideTurn(rec, doc, lang) ==
    LET detected == detect_language_preference(rec.msg)
        r == [rec EXCEPT !.stored = doc.language, !.lang = lang,
                         !.detected = detected]
    IN  IF IsSwitch(detected)
        THEN [r EXCEPT !.path = "switch", !.pc = "update"]
        ELSE IF NeedsPrompt(lang)
        THEN [r EXCEPT !.path = "prompt", !.pc = "user", !.reply = LANGUAGE_PROMPT]
        ELSE [r EXCEPT !.path = "normal", !.pc = "user"]

\* Mutant of UserContent: every turn's text gets the upload suffix.
UserContentTagged(rec) == Append(rec.msg, "[Uploaded file]")

\* The content of the user message a turn persists: the text as submitted, and
\* for an upload f"{message} [Uploaded file: {file.filename}]".
UserContent(rec) ==
    IF rec.kind = "upload" THEN Append(rec.msg, "[Uploaded file]") ELSE rec.msg

\* Mutant of PersistUser: the user message is not inserted.
PersistUserSkipped(msgs, rec) == msgs

PersistUser(msgs, rec) ==
    InsertMessage(msgs, ChatMessage(rec.sid, "user", UserContent(rec), rec.turn))

PersistAssistant(msgs, rec) ==
    InsertMessage(msgs, ChatMessage(rec.sid, "assistant", rec.reply, rec.turn))

\* `return {"user_message": user_msg, "assistant_message": assistant_msg}`: the
\* two objects that were inserted.
TurnPair(rec) ==
    << ChatMessage(rec.sid, "user", UserContent(rec), rec.turn),
       ChatMessage(rec.sid, "assistant", rec.reply, rec.turn) >>

\* After the user message is in: a normal turn goes on to generate_response,
\* the other two to their assistant message.
AfterUser(rec) ==
    IF rec.path = "normal"
    THEN [Log(Log(rec, "insert_user"), "generate") EXCEPT !.pc = "gen"]
    ELSE [Log(rec, "insert_user") EXCEPT !.pc = "asst"]

\* The requests one behaviour accepts.
TurnLimit == IF sched = "bridge" THEN MaxBridgeTurns ELSE MaxTurns

\* A task is between two of its awaits.
Busy(t) == task[t].pc \notin {"idle", "done", "new", "receive", "closed"}

\* The event loop may run task t now: always when handlers interleave; when they
\* are served one at a time, only while no other handler is between its awaits.
Ready(t) == sched = "any" \/ \A u \in Tasks \ {t} : ~Busy(u)

(***************************************************************************)
(* handle_websocket (app/websocket.py 59-165)                              *)
(***************************************************************************)
\* A closed transport refuses every send; an open one may still fail.
SendResults(h) == IF task[h].pc = "closed" THEN {FALSE} ELSE BOOLEAN

SendRecord(turn, text, ok, via) ==
    [turn |-> turn, text |-> text, ok |-> ok, via |-> via]

\* The `except` clauses of lines 161-165: the handle leaves the registry and the
\* handler ends.
HandlerEnds(rec, why) == [Log(rec, why) EXCEPT !.pc = "closed"]

\* The route calls handle_websocket(websocket, session_id); connect() awaits accept().
WsOpen(h) ==
    /\ Ready(h)
    /\ task[h].pc = "new"
    /\ \E sid \in AllIds :
         task' = [task EXCEPT ![h] = [@ EXCEPT !.pc = "accept", !.sid = sid]]
    /\ UNCHANGED <<ai, sessions, messages, active_connections, sent, turns, created, sched>>

\* `await websocket.accept()` returns and lines 27-29 register the handle, or it
\* raises and handle_websocket ends before its `try`.
WsAccept(h) ==
    /\ Ready(h)
    /\ task[h].pc = "accept"
    /\ \E ok \in BOOLEAN :
         IF ok
         THEN /\ active_connections' =
                     RegistryAppend(active_connections, task[h].sid, h)
              /\ task' = [task EXCEPT ![h].pc = "receive"]
         ELSE /\ task' = [task EXCEPT ![h] = [Log(@, "accept_failed") EXCEPT !.pc = "closed"]]
              /\ UNCHANGED active_connections
    /\ UNCHANGED <<ai, sessions, messages, sent, turns, created, sched>>

\* `msg = await websocket.receive_text()` returns a text: a turn begins.
WsReceiveText(h) ==
    /\ Ready(h)
    /\ task[h].pc = "receive"
    /\ turns < TurnLimit
    /\ \E msg \in Texts :
         task' = [task EXCEPT ![h] =
                    [TaskIdle EXCEPT !.kind = "ws", !.pc = "find", !.sid = task[h].sid,
                                     !.msg = msg, !.turn = turns + 1]]
    /\ turns' = turns + 1
    /\ UNCHANGED <<ai, sessions, messages, active_connections, sent, created, sched>>

\* receive_text raises WebSocketDisconnect: lines 161-162.
WsDisconnected(h) ==
    /\ Ready(h)
    /\ task[h].pc = "receive"
    /\ active_connections' = disconnect(active_connections, task[h].sid, h)
    /\ task' = [task EXCEPT ![h] = HandlerEnds(@, "disconnected")]
    /\ UNCHANGED <<ai, sessions, messages, sent, turns, created, sched>>

\* `session = await db.chat_sessions.find_one(...)` and the decision of lines 70-130.
WsFind(h) ==
    /\ Ready(h)
    /\ task[h].pc = "find"
    /\ LET doc == FindOne(task[h].sid) IN
       task' = [task EXCEPT ![h] =
                  IF doc = NoDoc
                  THEN [@ EXCEPT !.pc = "nf_send", !.status = 404]
                  ELSE DecideTurn(@, doc, doc.language)]
    /\ UNCHANGED <<ai, sessions, messages, active_connections, sent, turns, created, sched>>

\* `await websocket.send_text("Session not found"); continue`
WsNotFoundSend(h) ==
    /\ Ready(h)
    /\ task[h].pc = "nf_send"
    /\ \E ok \in SendResults(h) :
         /\ sent' = [sent EXCEPT ![h] =
                       Append(@, SendRecord(task[h].turn, <<"Session not found">>, ok, "direct"))]
         /\ IF ok
            THEN /\ task' = [task EXCEPT ![h].pc = "receive"]
                 /\ UNCHANGED active_connections
            ELSE /\ active_connections' = disconnect(active_connections, task[h].sid, h)
                 /\ task' = [task EXCEPT ![h] = HandlerEnds(@, "send_raised")]
    /\ UNCHANGED <<ai, sessions, messages, turns, created, sched>>

\* Language switch: `await db.chat_sessions.update_one(...)`, then the reply is chosen.
WsSwitchUpdate(h) ==
    /\ Ready(h)
    /\ task[h].kind = "ws" /\ task[h].pc = "update"
    /\ sessions' = UpdateLanguage(task[h].sid, task[h].detected)
    /\ task' = [task EXCEPT ![h] =
                  [Log(@, "update_language") EXCEPT
                      !.pc = "user", !.reply = ConfirmationFor(task[h].detected)]]
    /\ UNCHANGED <<ai, messages, active_connections, sent, turns, created, sched>>

\* `await db.chat_messages.insert_one(user_msg)` on any of the three paths; on the
\* normal path generate_response is called next (ai_service is configured).
WsInsertUser(h) ==
    /\ Ready(h)
    /\ task[h].kind = "ws" /\ task[h].pc = "user"
    /\ messages' = PersistUser(messages, task[h])
    /\ task' = [task EXCEPT ![h] = AfterUser(@)]
    /\ UNCHANGED <<ai, sessions, active_connections, sent, turns, created, sched>>

\* `ai_reply = await ai_service.generate_response(...)`: a reply, or an
\* HTTPException, which `except Exception` of line 163 takes.
WsGenerate(h) ==
    /\ Ready(h)
    /\ task[h].kind = "ws" /\ task[h].pc = "gen"
    /\ \E o \in GenerateOutcomesFor(task[h].lang) :
         IF o.status = 200
         THEN /\ task' = [task EXCEPT ![h] = [@ EXCEPT !.pc = "asst", !.reply = o.reply]]
              /\ UNCHANGED active_connections
         ELSE /\ active_connections' = disconnect(active_connections, task[h].sid, h)
              /\ task' = [task EXCEPT ![h] =
                            HandlerEnds([@ EXCEPT !.status = o.status], "generate_failed")]
    /\ UNCHANGED <<ai, sessions, messages, sent, turns, created, sched>>

\* Mutant of BroadcastEnter: the sends go to every handle, registered or not.
BroadcastEnterEveryone(rec, ac) ==
    [Log(rec, "broadcast") EXCEPT !.pc = "bc_send", !.snap = <<"h1", "h2">>, !.idx = 1]

\* ConnectionManager.broadcast is entered (lines 43-44): the list is copied and
\* the first send awaited; with no entry, or an entry whose list is empty, the
\* call returns without a send.
BroadcastEnter(rec, ac) ==
    IF rec.sid \in DOMAIN ac /\ ac[rec.sid] # <<>>
    THEN [Log(rec, "broadcast") EXCEPT !.pc = "bc_send", !.snap = ac[rec.sid], !.idx = 1]
    ELSE [Log(Log(rec, "broadcast"), "broadcast_done") EXCEPT
              !.pc = "receive", !.snap = <<>>, !.idx = 0]

\* Lines 51-52 of a broadcast that sent nothing.
BroadcastEnterRegistry(sid, ac) ==
    IF sid \in DOMAIN ac THEN DeleteIfEmpty(ac, sid) ELSE ac

\* `await db.chat_messages.insert_one(assistant_msg)`, then `manager.broadcast`.
WsInsertAssistant(h) ==
    /\ Ready(h)
    /\ task[h].kind = "ws" /\ task[h].pc = "asst"
    /\ messages' = PersistAssistant(messages, task[h])
    /\ task' = [task EXCEPT ![h] =
                  BroadcastEnter(Log(@, "insert_assistant"), active_connections)]
    /\ active_connections' = BroadcastEnterRegistry(task[h].sid, active_connections)
    /\ UNCHANGED <<ai, sessions, sent, turns, created, sched>>

\* Line 49, `self.active_connections[session_id].remove(connection)`: KeyError
\* when the entry is gone, ValueError when the handle is no longer in the list.
RemoveRaises(ac, sid, c) == sid \notin DOMAIN ac \/ ~InSeq(c, ac[sid])

\* Mutant of BroadcastRemove: a failed send leaves the registry as it was.
BroadcastRemoveNothing(ac, sid, c) == ac

\* Line 49 when it does not raise: the dead handle leaves the list.
BroadcastRemove(ac, sid, c) == [ac EXCEPT ![sid] = RemoveFirst(@, c)]

\* One pass of the loop of lines 44-49 for the handle at snap[idx]: the awaited
\* send, the removal on failure, and after the last handle lines 51-52. An
\* exception leaving broadcast lands in line 163 of the calling handler.
WsBroadcastSend(h) ==
    /\ Ready(h)
    /\ task[h].pc = "bc_send"
    /\ LET rec == task[h]
           c == rec.snap[rec.idx]
           sid == rec.sid
       IN \E ok \in SendResults(c) :
            /\ sent' = [sent EXCEPT ![c] =
                          Append(@, SendRecord(rec.turn, rec.reply, ok, "broadcast"))]
            /\ IF ~ok /\ RemoveRaises(active_connections, sid, c)
               THEN /\ active_connections' = disconnect(active_connections, sid, h)
                    /\ task' = [task EXCEPT ![h] = HandlerEnds(@, "broadcast_raised")]
               ELSE LET ac1 == IF ok THEN active_connections
                               ELSE BroadcastRemove(active_connections, sid, c)
                    IN  IF rec.idx < Len(rec.snap)
                        THEN /\ active_connections' = ac1
                             /\ task' = [task EXCEPT ![h].idx = rec.idx + 1]
                        ELSE IF sid \notin DOMAIN ac1
                        THEN /\ active_connections' = disconnect(ac1, sid, h)
                             /\ task' = [task EXCEPT ![h] =
                                           HandlerEnds(@, "broadcast_raised")]
                        ELSE /\ active_connections' = DeleteIfEmpty(ac1, sid)
                             /\ task' = [task EXCEPT ![h] =
                                           [Log(@, "broadcast_done") EXCEPT !.pc = "receive"]]
    /\ UNCHANGED <<ai, sessions, messages, turns, created, sched>>

\* `await connection.send_text(message)` (line 46) is awaited bare, with no
\* timeout around it: a send to an observer that never takes the data never
\* returns, and nothing in broadcast resumes the loop.
WsBroadcastHang(h) ==
    /\ Ready(h)
    /\ task[h].pc = "bc_send"
    /\ task' = [task EXCEPT ![h] = [Log(@, "send_hung") EXCEPT !.pc = "bc_hung"]]
    /\ UNCHANGED <<ai, sessions, messages, active_connections, sent, turns, created, sched>>

WsStep(h) ==
    \/ WsOpen(h)
    \/ WsAccept(h)
    \/ WsReceiveText(h)
    \/ WsDisconnected(h)
    \/ WsFind(h)
    \/ WsNotFoundSend(h)
    \/ WsSwitchUpdate(h)
    \/ WsInsertUser(h)
    \/ WsGenerate(h)
    \/ WsInsertAssistant(h)
    \/ WsBroadcastSend(h)

(***************************************************************************)
(* The REST routes of app/routes/chat.py and the bridge webhook            *)
(***************************************************************************)
Free(r) == task[r].pc \in {"idle", "done"}

Respond(rec, status) == [rec EXCEPT !.pc = "done", !.status = status]

NewRequest(kind, sid, msg, explicit, file) ==
    [TaskIdle EXCEPT !.kind = kind, !.sid = sid, !.msg = msg, !.explicit = explicit,
                     !.file = file, !.turn = turns + 1]

\* `req.language or session.get("language")`
EffectiveLanguage(explicit, doc) ==
    IF explicit # None /\ explicit # "" THEN explicit ELSE doc.language

\* create_chat_session: the document is inserted with the language as given.
create_chat_session(r) ==
    /\ Ready(r)
    /\ Free(r)
    /\ created < Len(SessionIds)
    /\ \E l \in CreateLanguages :
         /\ sessions' = InsertSession(SessionIds[created + 1], l)
         /\ task' = [task EXCEPT ![r] =
                       Respond([TaskIdle EXCEPT !.kind = "create",
                                                !.sid = SessionIds[created + 1],
                                                !.explicit = l], 200)]
    /\ created' = created + 1
    /\ UNCHANGED <<ai, messages, active_connections, sent, turns, sched>>

\* send_message, lines 77-138: find_one, the 404, and the decision.
SmStart(r) ==
    /\ Ready(r)
    /\ Free(r)
    /\ turns < TurnLimit
    /\ \E sid \in AllIds, msg \in Texts, explicit \in ExplicitLanguages :
         LET doc == FindOne(sid)
             rec == NewRequest("send_message", sid, msg, explicit, None)
         IN task' = [task EXCEPT ![r] =
                       IF doc = NoDoc THEN Respond(rec, 404)
                       ELSE DecideTurn(rec, doc, EffectiveLanguage(explicit, doc))]
    /\ turns' = turns + 1
    /\ UNCHANGED <<ai, sessions, messages, active_connections, sent, created, sched>>

\* send_message, lines 88-98.
SmSwitchUpdate(r) ==
    /\ Ready(r)
    /\ task[r].kind = "send_message" /\ task[r].pc = "update"
    /\ sessions' = UpdateLanguage(task[r].sid, task[r].detected)
    /\ task' = [task EXCEPT ![r] =
                  [Log(@, "update_language") EXCEPT
                      !.pc = "user", !.reply = ConfirmationFor(task[r].detected)]]
    /\ UNCHANGED <<ai, messages, active_connections, sent, turns, created, sched>>

\* send_message, the insert of user_msg (lines 106, 127, 144).
SmInsertUser(r) ==
    /\ Ready(r)
    /\ task[r].kind = "send_message" /\ task[r].pc = "user"
    /\ messages' = PersistUser(messages, task[r])
    /\ task' = [task EXCEPT ![r] = AfterUser(@)]
    /\ UNCHANGED <<ai, sessions, active_connections, sent, turns, created, sched>>

\* `await ai_service.generate_response(...)` in send_message (153) and in
\* upload_and_analyze_file (264): an HTTPException is re-raised to the client.
RestGenerate(r) ==
    /\ Ready(r)
    /\ task[r].kind \in {"send_message", "upload"} /\ task[r].pc = "gen"
    /\ \E o \in GenerateOutcomesFor(task[r].lang) :
         task' = [task EXCEPT ![r] =
                    IF o.status = 200
                    THEN [@ EXCEPT !.pc = "asst", !.reply = o.reply]
                    ELSE Respond(Log(@, "generate_failed"), o.status)]
    /\ UNCHANGED <<ai, sessions, messages, active_connections, sent, turns, created, sched>>

\* send_message, line 153: generate_response is entered with the conversation
\* id of the turn, after the insert of user_msg (line 144) has completed.
SmCallGenerate(r) ==
    /\ Ready(r)
    /\ task[r].kind = "send_message" /\ task[r].pc = "gen"
    /\ ai.pc = "idle"
    /\ \E loaded \in BOOLEAN : ai' = AiEntered(task[r].sid, loaded)
    /\ task' = [task EXCEPT ![r] = [@ EXCEPT !.pc = "gen_wait"]]
    /\ UNCHANGED <<sessions, messages, active_connections, sent, turns, created, sched>>

\* generate_response returns its reply to send_message or raises its
\* HTTPException, which send_message re-raises (lines 170-171).
SmGenerateReturn(r) ==
    /\ Ready(r)
    /\ task[r].kind = "send_message" /\ task[r].pc = "gen_wait"
    /\ ai.pc = "done"
    /\ task' = [task EXCEPT ![r] =
                  IF ai.status = 200
                  THEN [@ EXCEPT !.pc = "asst", !.reply = <<ai.reply>>]
                  ELSE Respond(Log(@, "generate_failed"), ai.status)]
    /\ ai' = AiIdle
    /\ UNCHANGED <<sessions, messages, active_connections, sent, turns, created, sched>>

\* The insert of assistant_msg and the 200 response (lines 114-116, 134-136,
\* 166-168, 277-279). These routes do not call manager.broadcast.
RestInsertAssistant(r) ==
    /\ Ready(r)
    /\ task[r].kind \in {"send_message", "upload"} /\ task[r].pc = "asst"
    /\ messages' = PersistAssistant(messages, task[r])
    /\ task' = [task EXCEPT ![r] =
                  Respond([Log(@, "insert_assistant") EXCEPT
                              !.body = TurnPair(task[r])], 200)]
    /\ UNCHANGED <<ai, sessions, active_connections, sent, turns, created, sched>>

\* Mutant of validate_file_size: every size passes.
validate_file_size_any(file_size, max_size) == TRUE

\* validate_file_size(file_size, max_size): `return file_size <= max_size`
validate_file_size(file_size, max_size) == file_size <= max_size

\* upload_and_analyze_file, lines 185-207: find_one, the 404, file.read, the 413.
\* `lang = language or session.get("language", "english")`.
UpStart(r) ==
    /\ Ready(r)
    /\ Free(r)
    /\ turns < TurnLimit
    /\ \E sid \in AllIds, msg \in Texts, explicit \in ExplicitLanguages, file \in Files :
         LET doc == FindOne(sid)
             rec == NewRequest("upload", sid, msg, explicit, file)
         IN task' = [task EXCEPT ![r] =
                       IF doc = NoDoc THEN Respond(rec, 404)
                       ELSE IF ~validate_file_size(file.size, MAX_FILE_SIZE)
                       THEN Respond(rec, 413)
                       ELSE [rec EXCEPT !.path = "normal", !.pc = "user",
                                        !.stored = doc.language,
                                        !.lang = EffectiveLanguage(explicit, doc)]]
    /\ turns' = turns + 1
    /\ UNCHANGED <<ai, sessions, messages, active_connections, sent, created, sched>>

\* Lines 222-255: which media types and contents reach generate_response.
FileAccepted(file) == file.kind \in {"image", "text_ok", "pdf_ok"}

\* upload_and_analyze_file, lines 209-269: the user message is inserted, the file
\* is processed, and generate_response is called or a 400 raised.
UpInsertUser(r) ==
    /\ Ready(r)
    /\ task[r].kind = "upload" /\ task[r].pc = "user"
    /\ messages' = PersistUser(messages, task[r])
    /\ task' = [task EXCEPT ![r] =
                  IF FileAccepted(task[r].file)
                  THEN AfterUser(@)
                  ELSE Respond(Log(@, "insert_user"), 400)]
    /\ UNCHANGED <<ai, sessions, active_connections, sent, turns, created, sched>>

\* Mutant of LanguageAccepted: every value passes.
LanguageAcceptedAny(language) == TRUE

\* change_language, line 330: `language.lower() not in SUPPORTED_LANGUAGES` negated.
LanguageAccepted(language) == InSeq(Lower(language), SUPPORTED_LANGUAGES)

\* change_language, lines 330-339: the membership test, find_one, the 404.
ClStart(r) ==
    /\ Ready(r)
    /\ Free(r)
    /\ turns < TurnLimit
    /\ \E sid \in AllIds, l \in ChangeLanguages :
         LET doc == FindOne(sid)
             rec == NewRequest("change_language", sid, <<>>, l, None)
         IN task' = [task EXCEPT ![r] =
                       IF ~LanguageAccepted(l) THEN Respond(rec, 400)
                       ELSE IF doc = NoDoc THEN Respond(rec, 404)
                       ELSE [rec EXCEPT !.pc = "update", !.stored = doc.language]]
    /\ turns' = turns + 1
    /\ UNCHANGED <<ai, sessions, messages, active_connections, sent, created, sched>>

\* change_language, lines 341-354.
ClUpdate(r) ==
    /\ Ready(r)
    /\ task[r].kind = "change_language" /\ task[r].pc = "update"
    /\ sessions' = UpdateLanguage(task[r].sid, Lower(task[r].explicit))
    /\ task' = [task EXCEPT ![r] = Respond(Log(@, "update_language"), 200)]
    /\ UNCHANGED <<ai, messages, active_connections, sent, turns, created, sched>>

\* whatsapp_incoming, lines 51-71: both services are configured; find_one.
WaStart(r) ==
    /\ Ready(r)
    /\ Free(r)
    /\ turns < TurnLimit
    /\ \E sid \in BridgeIds, msg \in Texts :
         LET doc == FindOne(sid)
             rec == NewRequest("whatsapp", sid, msg, None, None)
         IN task' = [task EXCEPT ![r] =
                       IF doc = NoDoc
                       THEN [rec EXCEPT !.pc = "insert_session"]
                       ELSE [Log(rec, "generate") EXCEPT !.pc = "gen",
                                                         !.stored = doc.language,
                                                         !.lang = "english"]]
    /\ turns' = turns + 1
    /\ UNCHANGED <<ai, sessions, messages, active_connections, sent, created, sched>>

\* whatsapp_incoming, lines 72-87: first contact inserts the session with "english".
WaInsertSession(r) ==
    /\ Ready(r)
    /\ task[r].kind = "whatsapp" /\ task[r].pc = "insert_session"
    /\ sessions' = InsertSession(task[r].sid, "english")
    /\ task' = [task EXCEPT ![r] = [Log(@, "generate") EXCEPT !.pc = "gen", !.lang = "english"]]
    /\ UNCHANGED <<ai, messages, active_connections, sent, turns, created, sched>>

\* whatsapp_incoming, lines 82-87 and 98-100.
WaGenerate(r) ==
    /\ Ready(r)
    /\ task[r].kind = "whatsapp" /\ task[r].pc = "gen"
    /\ \E o \in GenerateOutcomes :
         task' = [task EXCEPT ![r] =
                    IF o.status = 200
                    THEN [@ EXCEPT !.pc = "wa_send", !.reply = o.reply]
                    ELSE Respond(Log(@, "generate_failed"), 500)]
    /\ UNCHANGED <<ai, sessions, messages, active_connections, sent, turns, created, sched>>

\* whatsapp_incoming, lines 90-100: the reply goes out through Twilio.
WaSend(r) ==
    /\ Ready(r)
    /\ task[r].kind = "whatsapp" /\ task[r].pc = "wa_send"
    /\ \E ok \in BOOLEAN :
         task' = [task EXCEPT ![r] =
                    IF ok THEN Respond(Log(@, "bridge_send"), 200)
                    ELSE Respond(Log(@, "bridge_send_failed"), 500)]
    /\ UNCHANGED <<ai, sessions, messages, active_connections, sent, turns, created, sched>>

\* delete_chat_session is called: `await db.chat_messages.delete_many(...)` is issued.
DelStart(r) ==
    /\ Ready(r)
    /\ Free(r)
    /\ \E sid \in AllIds :
         task' = [task EXCEPT ![r] =
                    [TaskIdle EXCEPT !.kind = "delete", !.pc = "del_messages",
                                     !.sid = sid, !.turn = turns]]
    /\ UNCHANGED <<ai, sessions, messages, active_connections, sent, turns, created, sched>>

\* delete_chat_session, line 295: the messages of the session are deleted.
DelMessages(r) ==
    /\ Ready(r)
    /\ task[r].kind = "delete" /\ task[r].pc = "del_messages"
    /\ messages' = DeleteMany(messages, task[r].sid)
    /\ task' = [task EXCEPT ![r] = [Log(@, "delete_messages") EXCEPT !.pc = "del_session"]]
    /\ UNCHANGED <<ai, sessions, active_connections, sent, turns, created, sched>>

\* delete_chat_session, lines 298-303: the session document is deleted; 404 when
\* there was none.
DelSession(r) ==
    /\ Ready(r)
    /\ task[r].kind = "delete" /\ task[r].pc = "del_session"
    /\ sessions' = DeleteOne(task[r].sid)
    /\ task' = [task EXCEPT ![r] =
                  IF DeletedCount(task[r].sid) = 0
                  THEN Respond(@, 404)
                  ELSE Respond(Log(@, "delete_session"), 200)]
    /\ UNCHANGED <<ai, messages, active_connections, sent, turns, created, sched>>

\* A delete_chat_session(sid) call has returned successfully.
DeleteReturned(sid) ==
    \E r \in RestTasks :
        /\ task[r].kind = "delete" /\ task[r].sid = sid
        /\ task[r].pc = "done" /\ task[r].status = 200

\* get_chat_messages, lines 63-68: the session's messages by timestamp, at most
\* LIST_LIMIT of them. The record notes whether the call came after a successful
\* delete of the same id.
GetMessages(g) ==
    /\ Ready(g)
    /\ Free(g)
    /\ \E sid \in AllIds :
         task' = [task EXCEPT ![g] =
                    Respond([TaskIdle EXCEPT
                               !.kind = "get_messages", !.sid = sid, !.turn = turns,
                               !.reply = ToList(MessagesOf(sid), LIST_LIMIT),
                               !.events = IF DeleteReturned(sid)
                                          THEN <<"after_delete">> ELSE <<>>], 200)]
    /\ UNCHANGED <<ai, sessions, messages, active_connections, sent, turns, created, sched>>

RestStep(r) ==
    \/ create_chat_session(r)
    \/ SmStart(r)
    \/ SmSwitchUpdate(r)
    \/ SmInsertUser(r)
    \/ RestGenerate(r)
    \/ RestInsertAssistant(r)
    \/ UpStart(r)
    \/ UpInsertUser(r)
    \/ ClStart(r)
    \/ ClUpdate(r)
    \/ WaStart(r)
    \/ WaInsertSession(r)
    \/ WaGenerate(r)
    \/ WaSend(r)

(***************************************************************************)
(* Specifications                                                          *)
(***************************************************************************)
\* The state the processes start in: an empty store, no observer.
InitWith(mode) ==
    /\ ai = AiIdle
    /\ sessions = <<>>
    /\ messages = <<>>
    /\ active_connections = EmptyRegistry
    /\ task = [t \in Tasks |->
                 IF t \in WsHandles
                 THEN [TaskIdle EXCEPT !.kind = "ws", !.pc = "new"]
                 ELSE TaskIdle]
    /\ sent = [h \in WsHandles |-> <<>>]
    /\ turns = 0
    /\ created = 0
    /\ sched = mode

Init == InitWith("any")

InitSeq == InitWith("one")

InitBridge == InitWith("bridge")

\* One call of generate_response, every backend behaviour.
SpecAI == Init /\ [][NextAI]_vars

\* The same call when every await of generate_response is answered: the history
\* load, each chat.send_message run by asyncio.to_thread, each asyncio.sleep.
SpecAIFair == Init /\ [][NextAI]_vars /\ WF_vars(NextAI)

\* The observer registry under every interleaving of the socket handlers at
\* their awaits.
NextWS ==
    \/ create_chat_session("r1")
    \/ \E h \in WsHandles : WsStep(h)

SpecWS == Init /\ [][NextWS]_vars

\* The same handlers, each socket message served to its end before the next
\* handler runs.
SpecWSSeq == InitSeq /\ [][NextWS]_vars

\* The turn pipeline, one turn at a time: a request handler and a socket handler.
NextTurn ==
    \/ create_chat_session("r1")
    \/ SmStart("r1") \/ SmSwitchUpdate("r1") \/ SmInsertUser("r1")
    \/ UpStart("r1") \/ UpInsertUser("r1")
    \/ RestGenerate("r1") \/ RestInsertAssistant("r1")
    \/ WsStep("h1")

SpecTurn == InitSeq /\ [][NextTurn]_vars

\* Every route, one handler at a time.
NextSeq ==
    \/ RestStep("r1")
    \/ WsStep("h1")

SpecSeq == InitSeq /\ [][NextSeq]_vars

\* Two webhook calls of the bridge interleaving at their awaits.
NextWebhooks ==
    \E r \in RestTasks :
        WaStart(r) \/ WaInsertSession(r) \/ WaGenerate(r) \/ WaSend(r)

SpecWebhooks == Init /\ [][NextWebhooks]_vars

\* send_message with its call of generate_response spelled out, one request at a
\* time.
NextCall ==
    \/ create_chat_session("r1")
    \/ SmStart("r1") \/ SmSwitchUpdate("r1") \/ SmInsertUser("r1")
    \/ SmCallGenerate("r1")
    \/ AiConstruct \/ AiSend \/ AiSleep
    \/ SmGenerateReturn("r1")
    \/ RestInsertAssistant("r1")

SpecCall == InitSeq /\ [][NextCall]_vars

\* The bridge webhook and change_language on the sender's conversation, one
\* request at a time.
NextBridge ==
    \/ WaStart("r1") \/ WaInsertSession("r1") \/ WaGenerate("r1") \/ WaSend("r1")
    \/ ClStart("r1") \/ ClUpdate("r1")

SpecBridge == InitBridge /\ [][NextBridge]_vars

\* The words of the texts the detector is exercised on: the English names of the
\* languages, a capitalised name, a longer word containing a name, a phrase of
\* the second pattern, and words of no pattern.
DetectWords ==
    Supported \cup {"please", "speak", "Hindi", "englishman", "hindi-phrase"}

DetectInputs == UNION {[1..n -> DetectWords] : n \in 0..MaxWords}

\* A turn handler calls detect_language_preference(msg) on the text of its
\* request (chat.py 86, websocket.py 77).
Detect(r) ==
    /\ Ready(r)
    /\ task[r].pc = "idle"
    /\ \E msg \in DetectInputs :
         task' = [task EXCEPT ![r] =
                    Respond([TaskIdle EXCEPT
                               !.kind = "detect", !.msg = msg,
                               !.detected = detect_language_preference(msg)], 200)]
    /\ UNCHANGED <<ai, sessions, messages, active_connections, sent, turns, created, sched>>

NextDetect == Detect("r1")

SpecDetect == Init /\ [][NextDetect]_vars

\* The contents of the messages a long conversation accumulates.
HistoryTexts == << <<"fever">>, <<"rest">>, <<"cough">> >>

\* A turn's insert_one calls as the loader sees them: one more message of the
\* conversation, user and assistant alternating, in timestamp order.
StoreMessage ==
    /\ Len(messages) < MaxStored
    /\ LET n == Len(messages) + 1 IN
       messages' = InsertMessage(messages,
                      ChatMessage(SessionIds[1],
                                  IF n % 2 = 1 THEN "user" ELSE "assistant",
                                  HistoryTexts[(n % Len(HistoryTexts)) + 1],
                                  (n + 1) \div 2))
    /\ UNCHANGED <<ai, sessions, active_connections, task, sent, turns, created, sched>>

\* A conversation grows and generate_response loads its history.
NextHistory ==
    \/ StoreMessage
    \/ AiCall

SpecHistory == Init /\ [][NextHistory]_vars

\* The values the `role` field of a stored message may hold: ChatMessage.role is
\* a `str` with no validator ("user" or "assistant" by its comment), and the
\* loader reads whatever documents the collection holds.
StoredRoles == {"user", "assistant", "system"}

\* A document of the conversation as the loader may find it.
StoreAnyRole ==
    /\ Len(messages) < MaxRoleMessages
    /\ \E role \in StoredRoles :
         LET n == Len(messages) + 1 IN
         messages' = InsertMessage(messages,
                        ChatMessage(SessionIds[1], role,
                                    HistoryTexts[(n % Len(HistoryTexts)) + 1], n))
    /\ UNCHANGED <<ai, sessions, active_connections, task, sent, turns, created, sched>>

\* _load_chat_history applied to every short conversation over these roles.
NextRoles ==
    \/ StoreAnyRole
    \/ AiCall

SpecRoles == Init /\ [][NextRoles]_vars

\* The socket handlers with sends that may never return; every handler that can
\* take a step eventually takes one (the event loop resumes each ready task).
NextWSLive ==
    \/ create_chat_session("r1")
    \/ \E h \in WsHandles : WsStep(h)
    \/ \E h \in WsHandles : WsBroadcastHang(h)

SpecWSLive ==
    /\ Init
    /\ [][NextWSLive]_vars
    /\ \A h \in WsHandles : WF_vars(WsStep(h))

\* The same handlers when every send returns.
SpecWSFair ==
    /\ Init
    /\ [][NextWS]_vars
    /\ \A h \in WsHandles : WF_vars(WsStep(h))

\* Deleting a conversation while a send_message turn on it is in flight, and
\* reading its messages: handlers interleave at their awaits.
NextDelete ==
    \/ create_chat_session("r1")
    \/ SmStart("r1")
    \/ SmSwitchUpdate("r1")
    \/ SmInsertUser("r1")
    \/ RestGenerate("r1")
    \/ RestInsertAssistant("r1")
    \/ DelStart("r2")
    \/ DelMessages("r2")
    \/ DelSession("r2")
    \/ GetMessages("g1")

SpecDelete == Init /\ [][NextDelete]_vars

\* Two request handlers and one socket handler interleaving at their awaits.
Next ==
    \/ create_chat_session("r1")
    \/ \E r \in RestTasks :
         SmStart(r) \/ SmSwitchUpdate(r) \/ SmInsertUser(r)
            \/ RestGenerate(r) \/ RestInsertAssistant(r)
    \/ WsStep("h1")

Spec == Init /\ [][Next]_vars

(***************************************************************************)
(* Properties of generate_response (checked under SpecAI)                  *)
(***************************************************************************)
\* Positions of the log holding event `ev` of candidate m.
AiEvents(ev, m) ==
    {i \in DOMAIN ai.log : ai.log[i].ev = ev /\ ai.log[i].model = m}

\* Candidate m was contacted and answered every attempt with a rate-limit signal.
AlwaysRateLimited(m) ==
    /\ AiEvents("send", m) # {}
    /\ \A i \in AiEvents("send", m) : ai.log[i].outcome = "rate_limit"

\* The orchestrator is done with candidate m.
LeftCandidate(m) == ai.pc = "done" \/ ai.model > m

\* What generate_response gives its caller is one of GenerateOutcomes.
AiOutcomeCovered ==
    ai.pc = "done" =>
        \E o \in GenerateOutcomes :
            /\ o.status = ai.status
            /\ (ai.status = 200 => o.reply = <<ai.reply>>)

\* C1: a content-safety block on a delivery attempt ends the call at once with
\* BlockedContent (HTTP 400): the blocked attempt is the last event of the call,
\* no further attempt and no fallback model follows it.
C1_BlockedAbortsCall ==
    \A i \in DOMAIN ai.log :
        (ai.log[i].ev = "send" /\ ai.log[i].outcome = "blocked")
            => (i = Len(ai.log) /\ ai.pc = "done" /\ ai.status = 400)

\* C2: a candidate that answers every attempt with a rate-limit signal gets
\* exactly AI_MAX_RETRIES delivery attempts, one backoff sleep between two
\* consecutive attempts, the delays never decreasing, and the orchestrator
\* leaves the candidate only after the last of these attempts.
C2_RateLimitedRetries ==
    \A m \in DOMAIN AI_MODEL_NAMES :
        AlwaysRateLimited(m) =>
            /\ Cardinality(AiEvents("send", m)) <= AI_MAX_RETRIES
            /\ LeftCandidate(m) => Cardinality(AiEvents("send", m)) = AI_MAX_RETRIES
            /\ \A i, j \in AiEvents("send", m) :
                 i < j => \E k \in AiEvents("sleep", m) : i < k /\ k < j
            /\ \A i, j \in AiEvents("sleep", m) :
                 i < j => ai.log[i].wait <= ai.log[j].wait
            /\ \A i \in AiEvents("sleep", m) : ai.log[i].wait >= 1

\* C2 witness: the first candidate was rate-limited AI_MAX_RETRIES times and the
\* orchestrator has moved to the second.
C2_Witness ==
    /\ AlwaysRateLimited(1)
    /\ Cardinality(AiEvents("send", 1)) = AI_MAX_RETRIES
    /\ Cardinality(AiEvents("sleep", 1)) = AI_MAX_RETRIES - 1
    /\ ai.model = 2 /\ ai.pc = "construct"

(***************************************************************************)
(* Properties of ConnectionManager.broadcast                               *)
(***************************************************************************)
\* The handles of a list, and the handles the registry holds for a session.
HandlesIn(seq) == {seq[i] : i \in DOMAIN seq}
Registered(ac, sid) == IF sid \in DOMAIN ac THEN HandlesIn(ac[sid]) ELSE {}

\* Positions of the sends a broadcast of this turn made to handle c.
BroadcastSends(log, turn) ==
    {i \in DOMAIN log : log[i].via = "broadcast" /\ log[i].turn = turn}

\* Handler h is inside broadcast in the unprimed state and has left it in the
\* primed one.
BroadcastReturns(h) == task[h].pc = "bc_send" /\ task'[h].pc # "bc_send"

\* C3, the step entering broadcast: the handles to send to are the handles
\* registered for the session at that moment.
C3_Entered(h) ==
    (task[h].pc = "asst" /\ task[h].kind = "ws" /\ task'[h].pc = "bc_send")
        => task'[h].snap = active_connections[task[h].sid]

\* C3, the step leaving broadcast: one send of the text was attempted on every
\* handle registered at the start; the call returned to its caller; the handles
\* left in the registry are exactly those whose send succeeded.
C3_Returned(h) ==
    BroadcastReturns(h) =>
        LET rec == task[h]
            start == HandlesIn(rec.snap)
            delivered == {c \in start :
                            \E i \in BroadcastSends(sent'[c], rec.turn) : sent'[c][i].ok}
        IN  /\ \A c \in start :
                 /\ Cardinality(BroadcastSends(sent'[c], rec.turn)) = 1
                 /\ \A i \in BroadcastSends(sent'[c], rec.turn) :
                      sent'[c][i].text = rec.reply
            /\ task'[h].pc = "receive"
            /\ Registered(active_connections', rec.sid) = delivered

\* C3, any later broadcast: a handle that a broadcast removed is never sent to
\* by a broadcast again.
C3_RemovedStayOut(c) ==
    (Len(sent'[c]) > Len(sent[c]) /\ sent'[c][Len(sent'[c])].via = "broadcast")
        => \A i \in DOMAIN sent[c] : sent[c][i].via = "broadcast" => sent[c][i].ok

\* C3: broadcast(session_id, text) run without interference attempts a send to
\* every handle registered at the start of the call, keeps exactly the handles
\* whose send succeeded, removes exactly those whose send failed, and no later
\* broadcast sends to a removed handle.
C3_BroadcastSelfHeals ==
    [][/\ \A h \in WsHandles : C3_Entered(h) /\ C3_Returned(h)
       /\ \A c \in WsHandles : C3_RemovedStayOut(c)]_vars

\* C3 witness: a broadcast to two registered handles has returned, one send
\* succeeded and one failed, and only the healthy handle is still registered.
C3_Witness ==
    \E h \in WsHandles :
        /\ task[h].pc = "receive"
        /\ task[h].events # <<>>
        /\ task[h].events[Len(task[h].events)] = "broadcast_done"
        /\ HandlesIn(task[h].snap) = WsHandles
        /\ \E c, d \in WsHandles :
             /\ \E i \in BroadcastSends(sent[c], task[h].turn) : sent[c][i].ok
             /\ \E i \in BroadcastSends(sent[d], task[h].turn) : ~sent[d][i].ok
             /\ Registered(active_connections, task[h].sid) = {c}

\* C4: under every interleaving of connect, disconnect and broadcast, broadcast
\* never raises to its caller: no handler is ended by an exception leaving
\* ConnectionManager.broadcast.
C4_BroadcastNeverRaises ==
    \A h \in WsHandles : ~InSeq("broadcast_raised", task[h].events)

(***************************************************************************)
(* Properties of the turn pipeline                                         *)
(***************************************************************************)
TurnKinds == {"send_message", "upload", "ws"}

\* The messages of one turn with one role, in store order.
TurnMessages(msgs, sid, turn, role) ==
    SelectSeq(msgs, LAMBDA m : m.session_id = sid /\ m.turn = turn /\ m.role = role)

\* The turn's user message is in the store as the caller sent it.
UserStored(msgs, rec) ==
    TurnMessages(msgs, rec.sid, rec.turn, "user")
        = <<ChatMessage(rec.sid, "user", UserContent(rec), rec.turn)>>

\* The turn's assistant message is in the store with this content.
AssistantStored(msgs, rec, content) ==
    TurnMessages(msgs, rec.sid, rec.turn, "assistant")
        = <<ChatMessage(rec.sid, "assistant", content, rec.turn)>>

\* Event a is logged before the first event b.
Precedes(events, a, b) ==
    \A j \in DOMAIN events :
        events[j] = b => \E i \in 1..(j - 1) : events[i] = a

\* The step that ends a turn of task t: the handler was between two awaits of a
\* turn (past accept, for a socket) and has now answered, gone back to receive,
\* or ended.
TurnEnds(t) ==
    /\ Busy(t) /\ task[t].pc # "accept"
    /\ task'[t].pc \in {"done", "receive", "closed"}

\* C5: in every turn path (send_message, upload_and_analyze_file,
\* handle_websocket) the insert of the turn's user message has completed before
\* generate_response is invoked for the turn and before any broadcast of the turn.
C5_UserPersistedFirst ==
    \A t \in Tasks :
        LET rec == task[t] IN
        (rec.kind \in TurnKinds
            /\ (InSeq("generate", rec.events) \/ InSeq("broadcast", rec.events)))
        => /\ UserStored(messages, rec)
           /\ Precedes(rec.events, "insert_user", "generate")
           /\ Precedes(rec.events, "insert_user", "broadcast")

\* C5 witness: a websocket turn has called generate_response and broadcast, and
\* an upload turn has called generate_response, with the user message stored.
C5_Witness ==
    /\ task["h1"].kind = "ws"
    /\ InSeq("generate", task["h1"].events)
    /\ InSeq("broadcast", task["h1"].events)
    /\ UserStored(messages, task["h1"])
    /\ task["r1"].kind = "upload"
    /\ InSeq("generate", task["r1"].events)
    /\ UserStored(messages, task["r1"])

\* The caller that submitted the turn was told that generation failed: the REST
\* caller by an error response, the socket by a text sent to it for the turn.
ToldOfFailure(t) ==
    IF task[t].kind = "ws"
    THEN \E i \in DOMAIN sent[t] : sent[t][i].turn = task[t].turn
    ELSE task[t].pc = "done" /\ task[t].status \in {400, 500, 503}

\* C6: when generate_response fails in a send_message or handle_websocket turn
\* whose user message is already persisted, the user message stays in the
\* store, no assistant message is written for the turn, and the caller that
\* submitted the turn is told that generation failed.
C6_FailureLeavesUserAndTellsCaller ==
    \A t \in Tasks :
        (task[t].kind \in {"send_message", "ws"}
            /\ InSeq("generate_failed", task[t].events))
        => /\ UserStored(messages, task[t])
           /\ TurnMessages(messages, task[t].sid, task[t].turn, "assistant") = <<>>
           /\ ToldOfFailure(t)

\* C7: when every turn on a conversation has completed successfully, turns run
\* concurrently included, its history in insertion order is a sequence of
\* user/assistant pairs, each user message immediately followed by the
\* assistant message of the same turn.
C7_HistoryIsPairs ==
    \A sid \in AllIds :
        LET h == MessagesOf(sid) IN
        ((\A t \in Tasks : ~Busy(t))
            /\ \A i \in DOMAIN h :
                 /\ Len(TurnMessages(messages, sid, h[i].turn, "user")) = 1
                 /\ Len(TurnMessages(messages, sid, h[i].turn, "assistant")) = 1)
        => \A i \in DOMAIN h :
             IF i % 2 = 1
             THEN h[i].role = "user" /\ h[i + 1].role = "assistant"
                    /\ h[i + 1].turn = h[i].turn
             ELSE h[i].role = "assistant"

\* C8, one turn: the text maps to a supported language L and the conversation exists.
C8_Turn(t) ==
    (TurnEnds(t) /\ task[t].kind \in {"send_message", "ws"}
        /\ DocsOf(task[t].sid) # {}
        /\ detect_language_preference(task[t].msg) \in Supported)
    => LET L == detect_language_preference(task[t].msg) IN
       /\ FindOne(task[t].sid)'.language = L
       /\ UserStored(messages', task[t])
       /\ AssistantStored(messages', task[t], CONFIRMATION_MESSAGES[L])
       /\ ~InSeq("generate", task'[t].events)

\* C8: a send_message or handle_websocket turn whose text the detector maps to
\* a supported language L, whatever the stored or the explicit language, leaves
\* the stored language equal to L, the user message persisted as sent, the
\* assistant message equal to L's confirmation phrase, and calls no
\* generate_response.
C8_DetectedLanguageSwitches == [][\A t \in Tasks : C8_Turn(t)]_vars

\* C8 witness: a send_message turn with explicit language english on a
\* conversation stored as english has switched it to hindi.
C8_Witness ==
    /\ task["r1"].kind = "send_message" /\ task["r1"].pc = "done"
    /\ task["r1"].status = 200
    /\ task["r1"].explicit = "english" /\ task["r1"].stored = "english"
    /\ detect_language_preference(task["r1"].msg) = "hindi"
    /\ FindOne(task["r1"].sid).language = "hindi"
    /\ AssistantStored(messages, task["r1"], CONFIRMATION_MESSAGES["hindi"])

\* C9, one turn: the conversation has no stored language, the request names
\* none, and the text matches no pattern.
C9_Turn(t) ==
    (TurnEnds(t) /\ task[t].kind \in {"send_message", "ws"}
        /\ DocsOf(task[t].sid) # {}
        /\ FindOne(task[t].sid).language = None
        /\ task[t].explicit = None
        /\ detect_language_preference(task[t].msg) = None)
    => /\ UserStored(messages', task[t])
       /\ AssistantStored(messages', task[t], LANGUAGE_PROMPT)
       /\ ~InSeq("generate", task'[t].events)
       /\ FindOne(task[t].sid)'.language = None

\* C9: on a conversation with no stored language, a turn (send_message without
\* explicit language, or handle_websocket) whose text matches no language
\* pattern persists the user message and an assistant message equal to the
\* language-selection prompt, and calls no generate_response.
C9_NoLanguagePrompts == [][\A t \in Tasks : C9_Turn(t)]_vars

\* C9 witness: a websocket turn on a conversation without language has stored
\* the prompt and finished its broadcast.
C9_Witness ==
    /\ task["h1"].kind = "ws" /\ task["h1"].pc = "receive"
    /\ InSeq("broadcast_done", task["h1"].events)
    /\ detect_language_preference(task["h1"].msg) = None
    /\ DocsOf(task["h1"].sid) # {}
    /\ FindOne(task["h1"].sid).language = None
    /\ AssistantStored(messages, task["h1"], LANGUAGE_PROMPT)

\* C10: in every reachable state each stored conversation's language is unset
\* or a member of the supported-language set.
C10_StoredLanguageSupported ==
    \A i \in DOMAIN sessions :
        sessions[i].language = None \/ sessions[i].language \in Supported

\* A normal AI turn of task t has completed successfully: the REST caller got
\* its 200, the socket handler is back at receive with the reply stored.
NormalTurnCompleted(t) ==
    /\ task[t].kind \in {"send_message", "ws"}
    /\ task[t].path = "normal"
    /\ InSeq("insert_assistant", task[t].events)
    /\ IF task[t].kind = "ws"
       THEN task[t].pc = "receive"
       ELSE task[t].pc = "done" /\ task[t].status = 200

\* C11: every successfully completed normal AI turn, entered through
\* send_message or through handle_websocket, broadcasts the reply to the
\* observers registered for the conversation, after the assistant message has
\* been persisted.
C11_NormalTurnBroadcasts ==
    \A t \in Tasks :
        NormalTurnCompleted(t) =>
            /\ InSeq("broadcast", task[t].events)
            /\ Precedes(task[t].events, "insert_assistant", "broadcast")

\* The exception a failed event of the log left in last_error.
ErrorOf(event) ==
    IF event.ev = "construct" THEN "construct"
    ELSE IF event.outcome = "blocked" THEN "HTTPException(400)"
    ELSE event.outcome

\* An event of the log that is a failure of its candidate.
IsFailure(event) ==
    \/ event.ev = "construct" /\ event.outcome = "error"
    \/ event.ev = "send" /\ event.outcome # "ok"

\* Candidate m was tried and its last event is a failure.
CandidateFailed(m) ==
    LET own == {i \in DOMAIN ai.log : ai.log[i].model = m} IN
    /\ own # {}
    /\ IsFailure(ai.log[CHOOSE i \in own : \A j \in own : j <= i])

\* C12: generate_response fails with Unavailable (503) exactly when every
\* candidate of AI_MODEL_NAMES ended without a successful reply, and the detail
\* then carries the error of the last failed attempt.
C12_UnavailableWhenAllFailed ==
    ai.pc = "done" =>
        /\ ai.status = 503 <=> \A m \in DOMAIN AI_MODEL_NAMES : CandidateFailed(m)
        /\ ai.status = 503 =>
             /\ IsFailure(ai.log[Len(ai.log)])
             /\ ai.log[Len(ai.log)].model = Len(AI_MODEL_NAMES)
             /\ ai.detail = ErrorOf(ai.log[Len(ai.log)])

\* C12 witness: the first candidate failed with an error, the second used up its
\* rate-limited attempts, and the call ended 503 carrying the rate-limit error.
C12_Witness ==
    /\ ai.pc = "done" /\ ai.status = 503
    /\ \E i \in AiEvents("send", 1) : ai.log[i].outcome = "error"
    /\ Cardinality(AiEvents("send", 2)) = AI_MAX_RETRIES
    /\ ai.detail = "rate_limit"

\* C13: after delete_chat_session(id) has returned successfully, every later
\* get_chat_messages(id) returns an empty sequence, whatever turns on the same
\* id were in flight when the delete ran.
C13_DeletedStaysEmpty ==
    \A g \in Readers :
        (task[g].kind = "get_messages" /\ InSeq("after_delete", task[g].events))
            => task[g].reply = <<>>

\* Handler h is inside ConnectionManager.broadcast.
InBroadcast(h) == task[h].pc \in {"bc_send", "bc_hung"}

\* C14: broadcast always eventually completes, also when the send to one
\* observer never returns: every handler that has entered broadcast eventually
\* leaves it.
C14_BroadcastCompletes ==
    \A h \in WsHandles : InBroadcast(h) ~> ~InBroadcast(h)

(***************************************************************************)
(* Properties of the history loader                                        *)
(***************************************************************************)
\* The step in which generate_response has loaded the history.
HistoryLoaded == ai.pc = "idle" /\ ai'.pc = "construct"

\* C15: for a conversation holding more than HISTORY_LIMIT messages the loader
\* returns the HISTORY_LIMIT most recent ones in ascending timestamp order; for
\* a conversation with at most HISTORY_LIMIT messages it returns all of them,
\* oldest first.
C15_LoaderReturnsMostRecent ==
    [][HistoryLoaded =>
         LET all == MessagesOf(ai'.session_id)
             n == Len(all)
             k == IF n > HISTORY_LIMIT THEN HISTORY_LIMIT ELSE n
         IN  /\ Len(ai'.history) = k
             /\ \A i \in 1..k :
                  /\ ai'.history[i].parts = <<all[n - k + i].content>>
                  /\ ai'.history[i].role = "user" <=> all[n - k + i].role = "user"]_vars

(***************************************************************************)
(* Properties of the bridge webhook, the detector, upload and               *)
(* change_language                                                          *)
(***************************************************************************)
\* C16: an inbound bridge message is processed as a turn on the conversation
\* whose id is the sender address: when the webhook has answered OK, the user
\* message and the assistant reply of the turn are persisted as a pair in that
\* conversation.
C16_BridgeTurnPersisted ==
    \A t \in RestTasks :
        (task[t].kind = "whatsapp" /\ task[t].pc = "done" /\ task[t].status = 200)
            => /\ UserStored(messages, task[t])
               /\ AssistantStored(messages, task[t], task[t].reply)

\* The text "please speak " followed by the English name of language l.
PleaseSpeak(l) == <<"please", "speak", l>>

\* C17: for every supported language L, detect_language_preference of
\* "please speak " + L's English name is L, and of the empty text is None.
C17_DetectsEveryLanguage ==
    \A t \in Tasks :
        task[t].kind = "detect" =>
            /\ \A l \in Supported :
                 task[t].msg = PleaseSpeak(l) => task[t].detected = l
            /\ task[t].msg = <<>> => task[t].detected = None

\* C17 witness: the detector has been applied to "please speak japanese", the
\* last language of the table, and returned it.
C17_Witness ==
    /\ task["r1"].kind = "detect"
    /\ task["r1"].msg = PleaseSpeak("japanese")
    /\ task["r1"].detected = "japanese"

\* The table positions whose patterns match some word of the text.
MatchingEntries(msg) ==
    {k \in DOMAIN language_patterns :
        \E i \in DOMAIN msg :
            Lower(msg[i]) \in language_patterns[k].words
                                \cup language_patterns[k].phrases}

\* C18: when a text matches patterns of two or more languages, the detector
\* returns the one that comes first in the pattern-table order, wherever the
\* matches are in the text; it returns None when no pattern matches.
C18_FirstInTableOrder ==
    \A t \in Tasks :
        task[t].kind = "detect" =>
            LET matching == MatchingEntries(task[t].msg) IN
            IF matching = {}
            THEN task[t].detected = None
            ELSE \E k \in matching :
                   /\ \A j \in matching : k <= j
                   /\ task[t].detected = language_patterns[k].language

\* C18 witness: a text naming hindi before english, and a third language after
\* them, was detected as english.
C18_Witness ==
    /\ task["r1"].kind = "detect"
    /\ task["r1"].msg = <<"hindi", "english", "tamil">>
    /\ Cardinality(MatchingEntries(task["r1"].msg)) = 3
    /\ task["r1"].detected = "english"

\* The step in which task t takes an upload whose attachment exceeds
\* MAX_FILE_SIZE.
OversizedUpload(t) ==
    /\ Free(t)
    /\ task'[t].kind = "upload" /\ task'[t].turn = turns + 1
    /\ task'[t].file.size > MAX_FILE_SIZE

\* The upload is rejected with 413 in that same step, with no effect: nothing is
\* persisted, generate_response is not called, nothing is sent to an observer.
RejectedUnprocessed(t) ==
    /\ task'[t].pc = "done" /\ task'[t].status = 413
    /\ task'[t].events = <<>>
    /\ messages' = messages
    /\ sent' = sent

ChangeRequested(t) ==
    /\ Free(t)
    /\ task'[t].kind = "change_language" /\ task'[t].turn = turns + 1

\* C20: change_language with a value whose lower-cased form is outside the
\* supported set answers 400 and leaves every conversation record (language and
\* updated_at) as it was; with a supported value on an existing conversation the
\* request goes on to the update, which answers 200 and leaves the lower-cased
\* value as the conversation's stored language.
C20_ChangeLanguageValidated ==
    [][\A t \in RestTasks :
         /\ (ChangeRequested(t) /\ Lower(task'[t].explicit) \notin Supported) =>
                /\ task'[t].pc = "done" /\ task'[t].status = 400
                /\ sessions' = sessions
         /\ (/\ ChangeRequested(t)
             /\ Lower(task'[t].explicit) \in Supported
             /\ DocsOf(task'[t].sid) # {}) =>
                /\ task'[t].pc = "update"
                /\ sessions' = sessions
         /\ (task[t].kind = "change_language" /\ task[t].pc = "update"
             /\ task'[t] # task[t]) =>
                /\ task'[t].pc = "done" /\ task'[t].status = 200
                /\ FindOne(task[t].sid)'.language = Lower(task[t].explicit)
                /\ FindOne(task[t].sid)'.updated_at # FindOne(task[t].sid).updated_at]_vars

\* C20 witness: a change to "klingon" on a conversation whose language had been
\* set to "hindi" by one update was answered 400, and the record still holds
\* "hindi" with that one update.
C20_Witness ==
    /\ task["r1"].kind = "change_language" /\ task["r1"].pc = "done"
    /\ task["r1"].status = 400 /\ task["r1"].explicit = "klingon"
    /\ DocsOf(task["r1"].sid) # {}
    /\ FindOne(task["r1"].sid).language = "hindi"
    /\ FindOne(task["r1"].sid).updated_at = 1

(***************************************************************************)
(* Properties of requests to an absent conversation                        *)
(***************************************************************************)
\* The step in which request handler t takes a turn or a language change whose
\* conversation id is not in the store; change_language reaches its lookup only
\* with a value it accepts (line 330 comes first).
AbsentRequested(t) ==
    /\ Free(t)
    /\ task'[t].kind \in {"send_message", "upload", "change_language"}
    /\ task'[t].turn = turns + 1
    /\ DocsOf(task'[t].sid) = {}
    /\ task'[t].kind = "change_language" => Lower(task'[t].explicit) \in Supported

\* Nothing of the store and nothing sent to an observer changes in the step.
NothingChanges == messages' = messages /\ sessions' = sessions /\ sent' = sent

\* Socket handler h has looked its conversation up and found none.
WsAbsentFound(h) ==
    /\ task[h].kind = "ws" /\ task[h].pc = "find"
    /\ DocsOf(task[h].sid) = {}
    /\ task'[h] # task[h]

\* Socket handler h completes the send of line 71.
WsAbsentTold(h) == task[h].pc = "nf_send" /\ task'[h] # task[h]

\* What a handler that works on a turn logs.
WorkEvents ==
    {"update_language", "insert_user", "generate", "insert_assistant", "broadcast"}

ManagerCallInProgress == \E h \in WsHandles : task[h].pc \in {"accept", "bc_send", "bc_hung"}

\* C22: whenever no connect, disconnect or broadcast call of ConnectionManager is
\* in progress, no conversation id in active_connections maps to an empty
\* observer list.
C22_NoEmptyEntry ==
    ~ManagerCallInProgress =>
        \A sid \in DOMAIN active_connections : active_connections[sid] # <<>>

\* C22 witness: a broadcast has returned after its only send, to the last
\* registered handle, failed; no call is in progress and the conversation has no
\* entry left.
C22_Witness ==
    /\ ~ManagerCallInProgress
    /\ \E h \in WsHandles :
         /\ task[h].pc = "receive"
         /\ task[h].events # <<>>
         /\ task[h].events[Len(task[h].events)] = "broadcast_done"
         /\ task[h].snap = <<h>>
         /\ \E i \in BroadcastSends(sent[h], task[h].turn) : ~sent[h][i].ok
         /\ task[h].sid \notin DOMAIN active_connections

(***************************************************************************)
(* Properties of a handle's life in the registry                           *)
(***************************************************************************)
\* connect has registered handle h: accept returned and lines 27-29 ran.
WasRegistered(h) ==
    /\ task[h].pc \notin {"new", "accept"}
    /\ ~(task[h].pc = "closed" /\ InSeq("accept_failed", task[h].events))

\* Handle h was registered and is no longer in the registry.
Removed(h) ==
    WasRegistered(h) /\ h \notin Registered(active_connections, task[h].sid)

\* Handler g enters broadcast in this step.
BroadcastStarts(g) ==
    task[g].kind = "ws" /\ task[g].pc = "asst" /\ task'[g].pc # "asst"

\* Handle c is sent a broadcast text in this step.
BroadcastSentTo(c) ==
    Len(sent'[c]) > Len(sent[c]) /\ sent'[c][Len(sent'[c])].via = "broadcast"

\* C23: Disconnected is terminal for an observer handle: once a handle has been
\* removed from the registry, by disconnect or by a failed send, it is never
\* registered again, and no broadcast that starts after the removal sends to it
\* (a broadcast sends only to the handles it copied from the registry when it
\* started).
C23_DisconnectedIsTerminal ==
    [][/\ \A h \in WsHandles : Removed(h) => Removed(h)'
       /\ \A g \in WsHandles :
            BroadcastStarts(g) =>
               /\ \A h \in WsHandles : Removed(h) => ~InSeq(h, task'[g].snap)
               /\ HandlesIn(task'[g].snap)
                     \subseteq Registered(active_connections, task[g].sid)
       /\ \A c \in WsHandles :
            BroadcastSentTo(c) =>
               \E g \in WsHandles :
                  /\ task[g].pc = "bc_send"
                  /\ task[g].snap[task[g].idx] = c
                  /\ sent'[c][Len(sent'[c])].turn = task[g].turn]_vars

\* C23 witness: handle h was removed by the failed send of one broadcast, and a
\* later broadcast of the same conversation has returned without a send to h.
C23_Witness ==
    \E h, g \in WsHandles :
        /\ h # g
        /\ Removed(h) /\ task[h].pc = "receive"
        /\ task[g].sid = task[h].sid
        /\ \E i \in DOMAIN sent[h] :
             /\ sent[h][i].via = "broadcast" /\ ~sent[h][i].ok
             /\ sent[h][i].turn < task[g].turn
        /\ task[g].pc = "receive"
        /\ task[g].events # <<>>
        /\ task[g].events[Len(task[g].events)] = "broadcast_done"
        /\ task[g].snap = <<g>>
        /\ BroadcastSends(sent[h], task[g].turn) = {}

(***************************************************************************)
(* Properties of what a turn stores and returns                            *)
(***************************************************************************)
\* Request handler t is on a normal turn of send_message.
NormalSendMessage(t) == task[t].kind = "send_message" /\ task[t].path = "normal"

\* C24: a successful normal turn through send_message on a conversation with a
\* resolved language persists a user message whose content is exactly the
\* submitted text and an assistant message whose content is exactly the reply
\* returned by generate_response, and returns that same pair to the caller.
C24_TurnStoredVerbatim ==
    [][\A t \in RestTasks :
         LET rec == task[t]
             user_msg == ChatMessage(rec.sid, "user", rec.msg, rec.turn)
         IN
         /\ (NormalSendMessage(t) /\ rec.pc = "user" /\ task'[t] # rec) =>
               /\ rec.lang # None
               /\ messages' = Append(messages, user_msg)
               /\ task'[t].pc = "gen"
         /\ (NormalSendMessage(t) /\ rec.pc = "gen" /\ task'[t].pc = "asst") =>
               /\ \E reply \in Replies : task'[t].reply = <<reply>>
               /\ messages' = messages
         /\ (NormalSendMessage(t) /\ rec.pc = "asst" /\ task'[t] # rec) =>
               LET assistant_msg ==
                      ChatMessage(rec.sid, "assistant", rec.reply, rec.turn)
               IN  /\ messages' = Append(messages, assistant_msg)
                   /\ task'[t].pc = "done" /\ task'[t].status = 200
                   /\ task'[t].body = <<user_msg, assistant_msg>>]_vars

\* C24 witness: send_message has answered 200 on a normal turn and the store
\* holds the submitted text and the backend's reply as that turn's two messages.
C24_Witness ==
    \E t \in RestTasks :
        /\ NormalSendMessage(t) /\ task[t].pc = "done" /\ task[t].status = 200
        /\ task[t].msg = <<"what", "is", "bp">>
        /\ task[t].reply = <<"reply-b">>
        /\ TurnMessages(messages, task[t].sid, task[t].turn, "user")
              = <<ChatMessage(task[t].sid, "user", task[t].msg, task[t].turn)>>
        /\ TurnMessages(messages, task[t].sid, task[t].turn, "assistant")
              = <<ChatMessage(task[t].sid, "assistant", task[t].reply, task[t].turn)>>
        /\ Len(task[t].body) = 2

\* An upload turn of task t ends on a conversation with no stored language, with
\* no explicit language, a text naming no language, and a file within the size
\* ceiling whose content can be read.
C25_Turn(t) ==
    (/\ TurnEnds(t) /\ task[t].kind = "upload"
     /\ DocsOf(task[t].sid) # {}
     /\ FindOne(task[t].sid).language = None
     /\ task[t].explicit = None
     /\ detect_language_preference(task[t].msg) = None
     /\ task[t].file.size <= MAX_FILE_SIZE /\ FileAccepted(task[t].file))
    => /\ UserStored(messages', task[t])
       /\ AssistantStored(messages', task[t], LANGUAGE_PROMPT)
       /\ ~InSeq("generate", task'[t].events)

\* C25: a turn carrying an attachment follows the decision order of a text turn:
\* on a conversation with no stored language and no explicit language it
\* persists the user message, answers with the fixed language-selection prompt
\* and makes no call to generate_response.
C25_UploadPromptsForLanguage == [][\A t \in RestTasks : C25_Turn(t)]_vars

(***************************************************************************)
(* Properties of the retry loop and the candidate order (SpecAI)           *)
(***************************************************************************)
\* The position in the log of the k-th delivery attempt on candidate m.
KthSend(m, k) ==
    CHOOSE i \in AiEvents("send", m) :
        Cardinality({j \in AiEvents("send", m) : j <= i}) = k

\* The k-th delivery attempt on candidate m was made and was rate-limited; every
\* earlier attempt on m was rate-limited too, or the k-th would not exist.
KthRateLimited(m, k) ==
    /\ Cardinality(AiEvents("send", m)) >= k
    /\ ai.log[KthSend(m, k)].outcome = "rate_limit"

\* After the k-th attempt on m the call sleeps 2^(k-1) seconds and then issues
\* an attempt to m again.
BackoffFollows(m, k) ==
    LET i == KthSend(m, k) IN
    /\ i = Len(ai.log) => ai.pc = "sleep" /\ ai.model = m
    /\ i < Len(ai.log) => ai.log[i + 1] = AiEvent("sleep", m, "slept", 2 ^ (k - 1))
    /\ i + 1 = Len(ai.log) => ai.pc = "send" /\ ai.model = m
    /\ i + 1 < Len(ai.log) => ai.log[i + 2].ev = "send" /\ ai.log[i + 2].model = m

\* After the k-th attempt on m the call neither sleeps nor returns to m.
CandidateLeft(m, k) ==
    LET i == KthSend(m, k) IN
    /\ i = Len(ai.log) => ai.pc # "sleep" /\ (ai.pc = "done" \/ ai.model > m)
    /\ \A j \in (i + 1)..Len(ai.log) : ai.log[j].model > m

\* C26 as stated: the delay slept after the k-th consecutive rate-limited attempt
\* on a candidate, k = 1, 2, 3, is 2^(k-1) seconds (1s, 2s, 4s), and the attempt
\* that follows each such sleep is issued to the same candidate model.
C26_BackoffDelays ==
    \A m \in DOMAIN AI_MODEL_NAMES : \A k \in 1..3 :
        KthRateLimited(m, k) => BackoffFollows(m, k)

\* C26 amended: the delay slept after the k-th consecutive rate-limited attempt
\* on a candidate is 2^(k-1) seconds for k below AI_MAX_RETRIES (1s, 2s), and the
\* attempt that follows each such sleep is issued to the same candidate; after
\* the AI_MAX_RETRIES-th rate-limited attempt there is no sleep and the candidate
\* is left.
C26_BackoffDelaysBelowCeiling ==
    \A m \in DOMAIN AI_MODEL_NAMES :
        /\ \A k \in 1..(AI_MAX_RETRIES - 1) :
             KthRateLimited(m, k) => BackoffFollows(m, k)
        /\ KthRateLimited(m, AI_MAX_RETRIES) => CandidateLeft(m, AI_MAX_RETRIES)
        /\ Cardinality(AiEvents("send", m)) <= AI_MAX_RETRIES

\* C26 witness: the second candidate was slept on for 1s and then 2s, each sleep
\* followed by an attempt on it, and its third attempt succeeded.
C26_Witness ==
    /\ ai.pc = "done" /\ ai.status = 200 /\ ai.model = 2
    /\ {ai.log[i].wait : i \in AiEvents("sleep", 2)} = {1, 2}
    /\ Cardinality(AiEvents("send", 2)) = 3
    /\ ai.log[Len(ai.log)].outcome = "ok"

\* Positions of the delivery attempts that failed with neither a rate-limit
\* signal nor a safety block.
OtherFailures ==
    {i \in DOMAIN ai.log : ai.log[i].ev = "send" /\ ai.log[i].outcome = "error"}

\* C27: a delivery failure that is neither a rate-limit signal nor a safety block
\* ends the attempts on the current candidate at once, with no sleep and no
\* retry on that candidate, and the next candidate model, if any, is tried.
C27_OtherFailureAdvances ==
    \A i \in OtherFailures :
        LET m == ai.log[i].model IN
        /\ \A j \in (i + 1)..Len(ai.log) : ai.log[j].model > m
        /\ i < Len(ai.log) => ai.log[i + 1] = AiEvent("construct", m + 1,
                                                      ai.log[i + 1].outcome, 0)
        /\ i = Len(ai.log) =>
             IF m < Len(AI_MODEL_NAMES)
             THEN ai.pc = "construct" /\ ai.model = m + 1
             ELSE ai.pc = "done" /\ ai.status = 503

\* C27 witness: the first candidate failed with another error on its second
\* attempt, after one rate-limited attempt, and the second candidate was then
\* constructed and answered.
C27_Witness ==
    /\ ai.pc = "done" /\ ai.status = 200 /\ ai.model = 2
    /\ Cardinality(AiEvents("send", 1)) = 2
    /\ \E i \in OtherFailures : ai.log[i].model = 1
    /\ Cardinality(AiEvents("sleep", 1)) = 1
    /\ Cardinality(AiEvents("send", 2)) = 1

\* Positions of the delivery attempts that succeeded.
Successes ==
    {i \in DOMAIN ai.log : ai.log[i].ev = "send" /\ ai.log[i].outcome = "ok"}

\* C28: the first successful delivery ends the call with that reply: after a
\* success no further attempt is made on the same candidate and no later
\* candidate model is constructed or contacted.
C28_SuccessEndsCall ==
    /\ \A i \in Successes :
         /\ i = Len(ai.log)
         /\ ai.pc = "done" /\ ai.status = 200
         /\ ai.reply \in Replies
         /\ ai.model = ai.log[i].model
    /\ (ai.pc = "done" /\ ai.status = 200) => Successes # {}

\* C28 witness: the first candidate answered its first attempt, and the call
\* ended with that reply without an event of the second candidate.
C28_Witness ==
    /\ ai.pc = "done" /\ ai.status = 200 /\ ai.reply = "reply-a"
    /\ ai.model = 1
    /\ Len(ai.log) = 2
    /\ Successes = {2}
    /\ AiEvents("construct", 2) = {}

\* C29: generate_response contacts the candidate models strictly in the order of
\* AI_MODEL_NAMES: a fallback model receives a delivery attempt only after all
\* attempts on every earlier candidate have ended without success, and no
\* candidate is returned to once left.
C29_CandidatesInOrder ==
    /\ \A i \in DOMAIN ai.log :
         /\ ai.log[i].model \in DOMAIN AI_MODEL_NAMES
         /\ i = 1 => ai.log[i].model = 1
         /\ i > 1 => ai.log[i].model \in {ai.log[i - 1].model, ai.log[i - 1].model + 1}
         /\ (i > 1 /\ ai.log[i].model = ai.log[i - 1].model + 1)
               => IsFailure(ai.log[i - 1]) /\ ai.log[i].ev = "construct"
    /\ \A m \in DOMAIN AI_MODEL_NAMES : \A i \in AiEvents("send", m) :
         \A j \in DOMAIN ai.log :
            ai.log[j].model < m =>
               /\ j < i
               /\ ai.log[j].ev = "send" => ai.log[j].outcome # "ok"
    /\ ai.log # <<>> => ai.model = ai.log[Len(ai.log)].model
                          \/ (ai.pc = "construct"
                                /\ ai.model = ai.log[Len(ai.log)].model + 1)

\* C29 witness: the fallback model received a delivery attempt after the primary
\* had used up its rate-limited attempts.
C29_Witness ==
    /\ AiEvents("send", 2) # {}
    /\ Cardinality(AiEvents("send", 1)) = AI_MAX_RETRIES
    /\ \A i \in AiEvents("send", 1) :
         /\ ai.log[i].outcome = "rate_limit"
         /\ \A j \in AiEvents("send", 2) : i < j
    /\ ai.pc = "sleep" /\ ai.model = 2

\* Positions of the log holding event `ev`, of any candidate.
AllAiEvents(ev) == {i \in DOMAIN ai.log : ai.log[i].ev = ev}

\* generate_response has been entered and has not yet left.
AiRunning == ai.pc \in {"construct", "send", "sleep"}

\* C30: generate_response always terminates, with a reply or an error, when the
\* backend answers each send: a call that is running eventually is done with a
\* reply (200) or an error (503, 500); the delivery attempts of one call number
\* at most len(AI_MODEL_NAMES) x AI_MAX_RETRIES and the backoff sleeps at most
\* len(AI_MODEL_NAMES) x (AI_MAX_RETRIES - 1).
C30_CallTerminatesBounded ==
    /\ [](/\ Cardinality(AllAiEvents("send"))
               <= Len(AI_MODEL_NAMES) * AI_MAX_RETRIES
          /\ Cardinality(AllAiEvents("sleep"))
               <= Len(AI_MODEL_NAMES) * (AI_MAX_RETRIES - 1)
          /\ ai.pc = "done" => ai.status \in {200, 503, 500})
    /\ (AiRunning ~> ai.pc = "done")

\* C30 witness: a call that used every attempt and every sleep the bounds allow
\* has ended with 503.
C30_Witness ==
    /\ ai.pc = "done" /\ ai.status = 503
    /\ Cardinality(AllAiEvents("send")) = Len(AI_MODEL_NAMES) * AI_MAX_RETRIES
    /\ Cardinality(AllAiEvents("sleep")) = Len(AI_MODEL_NAMES) * (AI_MAX_RETRIES - 1)

BridgeMessageOnExisting(t) ==
    /\ Free(t)
    /\ task'[t].kind = "whatsapp" /\ task'[t].turn = turns + 1
    /\ DocsOf(task'[t].sid) # {}

\* C32: for inbound bridge messages the language "english" is only a
\* first-contact default: once the conversation for a sender address exists, the
\* reply to a bridge message is generated in that conversation's stored language.
C32_BridgeUsesStoredLanguage ==
    [][\A t \in RestTasks :
         BridgeMessageOnExisting(t) =>
            /\ InSeq("generate", task'[t].events)
            /\ task'[t].lang = FindOne(task'[t].sid).language]_vars

(***************************************************************************)
(* Properties of the end of handle_websocket                               *)
(***************************************************************************)
\* handle_websocket ends for handle h in this step.
HandlerEnding(h) == task[h].pc # "closed" /\ task'[h].pc = "closed"

\* Handle h is in no observer list of the registry.
InNoList(ac, h) == \A sid \in DOMAIN ac : ~InSeq(h, ac[sid])

\* C33: whenever handle_websocket ends for a handle, because its transport
\* disconnected or because an exception was raised while it processed a turn,
\* that handle is no longer a member of the registry, and an entry left empty by
\* its removal is deleted.
C33_EndedHandlerLeavesRegistry ==
    /\ [](\A h \in WsHandles :
            task[h].pc = "closed" => InNoList(active_connections, h))
    /\ [][\A h \in WsHandles :
            HandlerEnding(h) =>
               /\ InNoList(active_connections', h)
               /\ task[h].sid \in DOMAIN active_connections'
                     => active_connections'[task[h].sid] # <<>>]_vars

\* C33 witness: a handler that was alone in its conversation's list ended on a
\* failed generate_response, and the conversation's entry is gone.
C33_Witness ==
    \E h \in WsHandles :
        /\ task[h].pc = "closed"
        /\ InSeq("generate_failed", task[h].events)
        /\ task[h].sid \notin DOMAIN active_connections
        /\ \E g \in WsHandles \ {h} : task[g].pc = "new"

(***************************************************************************)
(* The conversation record across a turn (checked under SpecTurn)          *)
(***************************************************************************)
\* Task t takes this step as part of a turn that is not a language switch.
NonSwitchTurnStep(t) ==
    /\ task'[t] # task[t]
    /\ task'[t].kind \in TurnKinds
    /\ task'[t].path # "switch"

\* C34: a turn that is neither a language switch nor a language change request
\* leaves the conversation record unchanged: a prompt turn and a normal AI turn
\* (send_message, upload, handle_websocket) never modify the stored language,
\* and an explicit language passed to send_message or upload is used only for
\* that turn's generation and is not persisted.
C34_NonSwitchTurnKeepsRecord ==
    [][\A t \in Tasks :
          NonSwitchTurnStep(t) =>
             /\ sessions' = sessions
             /\ task'[t].pc = "done" /\ task'[t].path \in {"prompt", "normal"}
                   => FindOne(task'[t].sid).language = task'[t].stored]_vars

\* C34 witness: a normal send_message or upload turn answered 200 after
\* generating in an explicit language the record does not hold.
C34_Witness ==
    \E r \in RestTasks :
        /\ task[r].kind \in {"send_message", "upload"}
        /\ task[r].pc = "done" /\ task[r].status = 200
        /\ task[r].path = "normal"
        /\ task[r].explicit = "english" /\ task[r].lang = "english"
        /\ FindOne(task[r].sid).language # "english"

(***************************************************************************)
(* A failed generate_response in handle_websocket (checked under SpecWS)   *)
(***************************************************************************)
\* generate_response fails for handler h's turn in this step.
GenerateFails(h) ==
    /\ task[h].kind = "ws" /\ task[h].pc = "gen"
    /\ task'[h].events = Append(task[h].events, "generate_failed")

\* C35: in handle_websocket, a failure of generate_response during a turn does
\* not cost the sending observer its registration: after the failed turn the
\* sender's handle is still registered for the conversation, as are all other
\* handles of that conversation.
C35_FailedGenerateKeepsSender ==
    [][\A h \in WsHandles :
          GenerateFails(h) =>
             /\ task'[h].pc # "closed"
             /\ active_connections' = active_connections
             /\ h \in Registered(active_connections', task[h].sid)]_vars

(***************************************************************************)
(* An upload rejected for its content (checked under SpecTurn)             *)
(***************************************************************************)
\* Request r is an upload answered 400: its media type, its text encoding or
\* its PDF text was refused.
RejectedForContent(r) ==
    /\ task[r].kind = "upload"
    /\ task[r].pc = "done" /\ task[r].status = 400
    /\ ~FileAccepted(task[r].file)

\* C36: an upload that is rejected for its content (media type outside PDF /
\* image / text, undecodable text file, PDF with no extractable text) leaves no
\* trace in the conversation: no user message is persisted for it,
\* generate_response is not called and no assistant message is written.
C36_RejectedUploadLeavesNoTrace ==
    \A r \in RestTasks :
        RejectedForContent(r) =>
           /\ TurnMessages(messages, task[r].sid, task[r].turn, "user") = <<>>
           /\ TurnMessages(messages, task[r].sid, task[r].turn, "assistant") = <<>>
           /\ ~InSeq("generate", task[r].events)

(***************************************************************************)
(* The history a turn's generate_response is seeded with (SpecCall)        *)
(***************************************************************************)
\* The transcript of the conversation's messages of turns before `turn`.
EarlierTranscript(sid, turn) ==
    LET earlier == SelectSeq(MessagesOf(sid), LAMBDA m : m.turn < turn)
    IN  [i \in DOMAIN earlier |-> HistoryEntry(earlier[i])]

\* Request r's normal turn enters generate_response and its history is loaded.
TurnLoadsHistory(r) ==
    /\ task[r].path = "normal" /\ task[r].pc = "gen"
    /\ task'[r].pc = "gen_wait"
    /\ HistoryLoaded

\* C37: for a normal turn, the backend receives the current turn's user text
\* exactly once per delivery attempt: the history transcript that
\* generate_response seeds the model session with contains only messages of
\* earlier turns and not the user message of the turn being processed.
C37_HistoryExcludesCurrentTurn ==
    [][\A r \in RestTasks :
          TurnLoadsHistory(r) =>
             ai'.history = EarlierTranscript(task[r].sid, task[r].turn)]_vars

(***************************************************************************)
(* Conversation records of bridge senders (checked under SpecWebhooks)     *)
(***************************************************************************)
\* C38: for each bridge sender address at most one conversation record with
\* that id exists in the store, also when two first-contact webhook calls from
\* the same sender are handled concurrently.
C38_OneRecordPerSender ==
    \A sid \in BridgeIds : Cardinality(DocsOf(sid)) <= 1

(***************************************************************************)
(* ConnectionManager.connect (checked under SpecWS)                        *)
(***************************************************************************)
\* `await websocket.accept()` of handle h returns in this step.
AcceptCompletes(h) == task[h].pc = "accept" /\ task'[h].pc = "receive"

\* The observer list of a conversation id, empty when the id has no entry.
ListOf(ac, sid) == IF sid \in DOMAIN ac THEN ac[sid] ELSE <<>>

\* C39: ConnectionManager.connect registers a handle only after its accept()
\* has completed, appends it to the list of exactly the conversation id given
\* (creating the list if absent), and leaves the observer lists of all other
\* conversation ids unchanged.
C39_ConnectAppendsToOwnList ==
    /\ [](\A h \in WsHandles :
            task[h].pc \in {"new", "accept"} => InNoList(active_connections, h))
    /\ [][\A h \in WsHandles :
            /\ AcceptCompletes(h) =>
                  /\ DOMAIN active_connections'
                        = DOMAIN active_connections \cup {task[h].sid}
                  /\ active_connections'[task[h].sid]
                        = Append(ListOf(active_connections, task[h].sid), h)
                  /\ \A k \in DOMAIN active_connections \ {task[h].sid} :
                        active_connections'[k] = active_connections[k]
            /\ (InNoList(active_connections, h) /\ ~InNoList(active_connections', h))
                  => AcceptCompletes(h)]_vars

\* C39 witness: two handles were connected to two different conversation ids,
\* the second while the first one's list existed.
C39_Witness ==
    /\ DOMAIN active_connections = AllIds
    /\ \E h, g \in WsHandles :
         /\ h # g
         /\ active_connections[SessionIds[1]] = <<h>>
         /\ \A k \in AllIds \ {SessionIds[1]} : active_connections[k] = <<g>>

====
